---------------------------- MODULE Spec2Model ----------------------------
(***************************************************************************)
(* Calibration Plate Designer (calibration_plate_designer.py).             *)
(*                                                                         *)
(* The program computes with Python floats.  The model computes with exact *)
(* rationals [n |-> numerator, d |-> denominator] in lowest terms: every   *)
(* float expression of the source is modelled by the real-number           *)
(* expression it approximates, int() by truncation toward zero, // by      *)
(* floor division and math.sqrt under int() by the integer square root.    *)
(* A Python exception (ZeroDivisionError, ValueError of math.sqrt) is      *)
(* modelled by the result field raised = TRUE.                             *)
(***************************************************************************)
EXTENDS Integers, Sequences, FiniteSets, TLC

VARIABLES
    plate_width,      \* CalibrationPlateDesigner.plate_width  (mm, rational)
    plate_height,     \* CalibrationPlateDesigner.plate_height (mm, rational)
    margin,           \* CalibrationPlateDesigner.margin       (mm, rational)
    section_configs,  \* CalibrationPlateDesigner.section_configs: pattern_type and params of the 4 sections
    SVG_AVAILABLE,    \* module flag: import svgwrite succeeded
    DXF_AVAILABLE,    \* module flag: import ezdxf succeeded
    status_label,     \* text of CalibrationPlateDesigner.status_label
    dialogs,          \* filedialog / messagebox calls of the current (or last) handler invocation
    pc,               \* position of the export handler between two root.update() calls
    run,              \* locals of the running export handler
    dwg,              \* what was added to the svgwrite drawing / the ezdxf modelspace, in order
    files,            \* files written by dwg.save() / doc.saveas()
    invoked,          \* sections whose generator the current (or last) export has invoked
    edits,            \* number of user edits so far
    exports,          \* number of export handler invocations so far
    layout,           \* last value returned by calculate_section_dimensions
    call,             \* arguments of a generator call
    ret,              \* its result
    generators,       \* live PatternGenerator objects: name and parameters
    history           \* the generate_*_elements calls made on them, with their results

plateVars == <<plate_width, plate_height, margin>>

guiVars ==
    <<section_configs, SVG_AVAILABLE, DXF_AVAILABLE, status_label, dialogs, pc, run, dwg,
      files, invoked, edits, exports>>

genVars == <<call, ret>>

objVars == <<generators, history>>

vars ==
    <<plate_width, plate_height, margin, section_configs, SVG_AVAILABLE, DXF_AVAILABLE,
      status_label, dialogs, pc, run, dwg, files, invoked, edits, exports, layout, call, ret,
      generators, history>>

---------------------------------------------------------------------------
(* Exact rational arithmetic standing for Python float arithmetic.         *)

RECURSIVE GCD(_, _)
GCD(a, b) == IF b = 0 THEN a ELSE GCD(b, a % b)

Abs(i) == IF i < 0 THEN -i ELSE i

\* The rational n/d (d # 0) in lowest terms with a positive denominator.
R(n, d) ==
    LET g == GCD(Abs(n), Abs(d))
        s == IF d < 0 THEN -1 ELSE 1
    IN  [n |-> s * (n \div g), d |-> s * (d \div g)]

I(k) == [n |-> k, d |-> 1]

LCM(a, b) == (a \div GCD(a, b)) * b

RAdd(a, b) ==
    LET m == LCM(a.d, b.d)
    IN  R(a.n * (m \div a.d) + b.n * (m \div b.d), m)

RNeg(a) == [n |-> -a.n, d |-> a.d]

RSub(a, b) == RAdd(a, RNeg(b))

RMul(a, b) ==
    LET g1 == GCD(Abs(a.n), b.d)
        g2 == GCD(Abs(b.n), a.d)
    IN  R((a.n \div g1) * (b.n \div g2), (a.d \div g2) * (b.d \div g1))

\* a / b for b # 0 (the callers test b = 0 first: ZeroDivisionError).
RDiv(a, b) == RMul(a, R(b.d, b.n))

RLe(a, b) == RSub(a, b).n <= 0
RLt(a, b) == RSub(a, b).n < 0
RIsZero(a) == a.n = 0

RMin(a, b) == IF RLe(a, b) THEN a ELSE b

\* Python int(x) of a float: truncation toward zero.
PyInt(a) == IF a.n >= 0 THEN a.n \div a.d ELSE -((-a.n) \div a.d)

Max(i, j) == IF i >= j THEN i ELSE j
Min(i, j) == IF i <= j THEN i ELSE j

\* The largest k in lo..hi with k*k <= n (lo*lo <= n < (hi+1)*(hi+1)).
RECURSIVE ISqrtIn(_, _, _)
ISqrtIn(n, lo, hi) ==
    IF lo >= hi THEN lo
    ELSE LET mid == (lo + hi + 1) \div 2
         IN  IF mid <= n \div mid THEN ISqrtIn(n, mid, hi)
             ELSE ISqrtIn(n, lo, mid - 1)

\* int(math.sqrt(a)) for a >= 0: floor(sqrt(a)) = floor(sqrt(floor(a))).
IntSqrt(a) ==
    LET f == a.n \div a.d
    IN  ISqrtIn(f, 0, Min(f, 46340))

---------------------------------------------------------------------------
(* CalibrationPlateDesigner.calculate_section_dimensions                   *)

\* Faulty variants: one margin subtracted instead of two; the available
\* height not halved.
section_w_one_margin(plate_w, m) == RDiv(RSub(plate_w, m), I(2))

section_h_not_halved(plate_h, m) == RSub(plate_h, RMul(I(2), m))

section_w_of(plate_w, m) == RDiv(RSub(plate_w, RMul(I(2), m)), I(2))

section_h_of(plate_h, m) == RDiv(RSub(plate_h, RMul(I(2), m)), I(2))

calculate_section_dimensions(plate_w, plate_h, m) ==
    LET section_w == section_w_of(plate_w, m)
        section_h == section_h_of(plate_h, m)
    IN  [sections |-> << <<m, m>>,
                         <<RAdd(m, section_w), m>>,
                         <<m, RAdd(m, section_h)>>,
                         <<RAdd(m, section_w), RAdd(m, section_h)>> >>,
         section_w |-> section_w,
         section_h |-> section_h]

---------------------------------------------------------------------------
(* Pattern generators.  A generator call is modelled by an operator that   *)
(* returns                                                                 *)
(*   raised    : the call ended in a Python exception,                     *)
(*   elements  : the list the call returns (SVG) or the entities it added  *)
(*               to the modelspace (DXF), in emission order,               *)
(*   warnings  : the estimated counts _validate_element_count warned about,*)
(*   requested : the counts computed before the density guard              *)
(*               (<<cols, rows>> or <<num_lines>>),                        *)
(*   used      : the counts the loops run with.                            *)

MAX_ELEMENTS_PER_PATTERN == 10000

NoParams == <<>>

\* dict.get(key, default) on the generator's parameters.
Get(params, key, default) == IF key \in DOMAIN params THEN params[key] ELSE default

\* PatternGenerator._validate_element_count: TRUE iff no warning is printed.
validate_element_count(estimated_count) == estimated_count <= MAX_ELEMENTS_PER_PATTERN

Warnings(estimated_count) ==
    IF validate_element_count(estimated_count) THEN <<>> ELSE <<estimated_count>>

Returned(elements, warnings, requested, used) ==
    [raised |-> FALSE, elements |-> elements, warnings |-> warnings,
     requested |-> requested, used |-> used]

Raised(warnings, requested) ==
    [raised |-> TRUE, elements |-> <<>>, warnings |-> warnings,
     requested |-> requested, used |-> <<>>]

\* svgwrite shapes, with the presentation attributes the source passes.
Circle(cx, cy, r, fill, stroke) ==
    [kind |-> "circle", cx |-> cx, cy |-> cy, r |-> r, fill |-> fill, stroke |-> stroke]

Rect(x, y, w, h, fill, stroke) ==
    [kind |-> "rect", x |-> x, y |-> y, w |-> w, h |-> h, fill |-> fill, stroke |-> stroke]

Line(x1, y1, x2, y2, stroke_width) ==
    [kind |-> "line", x1 |-> x1, y1 |-> y1, x2 |-> x2, y2 |-> y2,
     stroke |-> "black", stroke_width |-> stroke_width]

Text(text, x, y, fill) ==
    [kind |-> "text", text |-> text, x |-> x, y |-> y, fill |-> fill]

\* Faulty variant: the aspect ratio taken as height/width.
max_cols_swapped_aspect(cap, section_width, section_height) ==
    IntSqrt(RDiv(RMul(I(cap), section_height), section_width))

\* The density clamp shared by the dot array (cap = MAX) and the
\* checkerboard (cap = 2*MAX): max_cols = int(sqrt(cap*width/height)),
\* max_rows = int(cap/max_cols).  Division by a zero height or a zero
\* max_cols raises ZeroDivisionError, math.sqrt of a negative ValueError.
max_cols_of(cap, section_width, section_height) ==
    IntSqrt(RDiv(RMul(I(cap), section_width), section_height))

\* Faulty variant: the quotient rounded up.
max_rows_rounded_up(cap, max_cols) == (cap + max_cols - 1) \div max_cols

max_rows_of(cap, max_cols) == cap \div max_cols

ClampRaises(cap, section_width, section_height) ==
    \/ RIsZero(section_height)
    \/ RDiv(RMul(I(cap), section_width), section_height).n < 0
    \/ max_cols_of(cap, section_width, section_height) = 0

---------------------------------------------------------------------------
(* ResolutionPatternGenerator.generate_svg_elements                        *)

\* "Use fixed values for solid fill": the parameters are not read.
Resolution_dot_spacing(params) == R(1, 4)

Resolution_dot_diameter(params) == R(1, 8)

\* Faulty variant: the step is span/count, which leaves a gap at the far edge.
Resolution_centres_residual_gap(x_offset, y_offset, section_width, section_height, cols, rows) ==
    LET actual_spacing_x == IF cols > 1 THEN RDiv(section_width, I(cols)) ELSE I(0)
        actual_spacing_y == IF rows > 1 THEN RDiv(section_height, I(rows)) ELSE I(0)
        start_x == IF cols > 1 THEN x_offset ELSE RAdd(x_offset, RDiv(section_width, I(2)))
        start_y == IF rows > 1 THEN y_offset ELSE RAdd(y_offset, RDiv(section_height, I(2)))
        xs == [col \in 0..(cols - 1) |-> RAdd(start_x, RMul(I(col), actual_spacing_x))]
        ys == [row \in 0..(rows - 1) |-> RAdd(start_y, RMul(I(row), actual_spacing_y))]
    IN  [k \in 1..(IF rows > 0 /\ cols > 0 THEN rows * cols ELSE 0) |->
            <<xs[(k - 1) % cols], ys[(k - 1) \div cols]>>]

\* for row in range(rows): for col in range(cols): the positions in the
\* order of the two loops, from the column and row coordinates.
Resolution_row_major(xs, ys, cols, rows) ==
    [k \in 1..(IF rows > 0 /\ cols > 0 THEN rows * cols ELSE 0) |->
        <<xs[((k - 1) % cols) + 1], ys[((k - 1) \div cols) + 1]>>] \o <<>>

\* The centres of the cols x rows dots, row-major ("Center the pattern").
Resolution_centres(x_offset, y_offset, section_width, section_height, cols, rows) ==
    LET actual_spacing_x == IF cols > 1 THEN RDiv(section_width, I(Max(1, cols - 1))) ELSE I(0)
        actual_spacing_y == IF rows > 1 THEN RDiv(section_height, I(Max(1, rows - 1))) ELSE I(0)
        start_x == IF cols > 1
                   THEN RAdd(x_offset, RDiv(RSub(section_width, RMul(I(cols - 1), actual_spacing_x)), I(2)))
                   ELSE RAdd(x_offset, RDiv(section_width, I(2)))
        start_y == IF rows > 1
                   THEN RAdd(y_offset, RDiv(RSub(section_height, RMul(I(rows - 1), actual_spacing_y)), I(2)))
                   ELSE RAdd(y_offset, RDiv(section_height, I(2)))
        xs == [col \in 1..cols |->
                  IF cols > 1 THEN RAdd(start_x, RMul(I(col - 1), actual_spacing_x)) ELSE start_x]
        ys == [row \in 1..rows |->
                  IF rows > 1 THEN RAdd(start_y, RMul(I(row - 1), actual_spacing_y)) ELSE start_y]
    IN  Resolution_row_major(xs \o <<>>, ys \o <<>>, cols, rows)

\* Lines 59-71: the requested grid and the density guard.
Resolution_grid(params, section_width, section_height) ==
    LET dot_spacing == Resolution_dot_spacing(params)
        cols0 == Max(1, PyInt(RDiv(section_width, dot_spacing)))
        rows0 == Max(1, PyInt(RDiv(section_height, dot_spacing)))
        total_dots == cols0 * rows0
    IN  IF validate_element_count(total_dots)
        THEN [raised |-> FALSE, warnings |-> <<>>, requested |-> <<cols0, rows0>>,
              used |-> <<cols0, rows0>>]
        ELSE IF ClampRaises(MAX_ELEMENTS_PER_PATTERN, section_width, section_height)
        THEN [raised |-> TRUE, warnings |-> Warnings(total_dots), requested |-> <<cols0, rows0>>,
              used |-> <<>>]
        ELSE LET max_cols == max_cols_of(MAX_ELEMENTS_PER_PATTERN, section_width, section_height)
                 max_rows == max_rows_of(MAX_ELEMENTS_PER_PATTERN, max_cols)
             IN  [raised |-> FALSE, warnings |-> Warnings(total_dots),
                  requested |-> <<cols0, rows0>>,
                  used |-> <<Min(cols0, max_cols), Min(rows0, max_rows)>>]

\* dwg.circle(center=(x, y), r=dot_diameter/2, fill='black', stroke='none')
\* for each centre.
Resolution_circles(c, radius) ==
    [k \in 1..Len(c) |-> Circle(c[k][1], c[k][2], radius, "black", "none")]

Resolution_generate_svg_elements(params, x_offset, y_offset, section_width, section_height) ==
    LET g == Resolution_grid(params, section_width, section_height)
        radius == RDiv(Resolution_dot_diameter(params), I(2))
    IN  IF g.raised THEN Raised(g.warnings, g.requested)
        ELSE Returned(Resolution_circles(Resolution_centres(x_offset, y_offset, section_width,
                                                            section_height, g.used[1], g.used[2]),
                                         radius),
                          g.warnings, g.requested, g.used)

---------------------------------------------------------------------------
(* DistortionPatternGenerator.generate_svg_elements                        *)

\* Lines 143-157: the requested grid and the density guard on the
\* estimate (cols*rows)//2.
Distortion_filled_squares(cols, rows) == (cols * rows) \div 2

Distortion_grid(params, section_width, section_height) ==
    LET grid_size == Get(params, "grid_size", I(1))
    IN  IF RIsZero(grid_size) THEN [raised |-> TRUE, warnings |-> <<>>, requested |-> <<>>, used |-> <<>>]
        ELSE
        LET cols0 == Max(1, PyInt(RDiv(section_width, grid_size)))
            rows0 == Max(1, PyInt(RDiv(section_height, grid_size)))
            filled_squares == Distortion_filled_squares(cols0, rows0)
            max_total == MAX_ELEMENTS_PER_PATTERN * 2
        IN  IF validate_element_count(filled_squares)
            THEN [raised |-> FALSE, warnings |-> <<>>, requested |-> <<cols0, rows0>>,
                  used |-> <<cols0, rows0>>]
            ELSE IF ClampRaises(max_total, section_width, section_height)
            THEN [raised |-> TRUE, warnings |-> Warnings(filled_squares),
                  requested |-> <<cols0, rows0>>, used |-> <<>>]
            ELSE LET max_cols == max_cols_of(max_total, section_width, section_height)
                     max_rows == max_rows_of(max_total, max_cols)
                     cols == Min(cols0, max_cols)
                     rows == Min(rows0, max_rows)
                 IN  \* actual_grid_w = width/cols, actual_grid_h = height/rows
                     [raised |-> (cols = 0 \/ rows = 0), warnings |-> Warnings(filled_squares),
                      requested |-> <<cols0, rows0>>,
                      used |-> IF cols = 0 \/ rows = 0 THEN <<>> ELSE <<cols, rows>>]

\* The box <<x, y, w, h>> of each filled cell, in the order of the loops.
Distortion_boxes(xs, ys, filled, cols, actual_grid_w, actual_grid_h) ==
    [j \in 1..Len(filled) |->
        <<xs[(filled[j] % cols) + 1], ys[(filled[j] \div cols) + 1], actual_grid_w, actual_grid_h>>] \o <<>>

\* Faulty variant: the parity of the cell index instead of row + col.
Distortion_cells_index_parity(x_offset, y_offset, section_width, section_height, cols, rows) ==
    LET actual_grid_w == RDiv(section_width, I(cols))
        actual_grid_h == RDiv(section_height, I(rows))
        xs == [col \in 0..(cols - 1) |-> RAdd(x_offset, RMul(I(col), actual_grid_w))]
        ys == [row \in 0..(rows - 1) |-> RAdd(y_offset, RMul(I(row), actual_grid_h))]
        filled == SelectSeq([k \in 1..(cols * rows) |-> k - 1], LAMBDA c : c % 2 = 0)
    IN  [j \in 1..Len(filled) |->
            <<xs[filled[j] % cols], ys[filled[j] \div cols], actual_grid_w, actual_grid_h>>]

\* Lines 159-175: the cells with (row + col) even, row-major, as
\* <<insert x, insert y, width, height>>.
Distortion_cells(x_offset, y_offset, section_width, section_height, cols, rows) ==
    LET actual_grid_w == RDiv(section_width, I(cols))
        actual_grid_h == RDiv(section_height, I(rows))
        xs == [col \in 1..cols |-> RAdd(x_offset, RMul(I(col - 1), actual_grid_w))]
        ys == [row \in 1..rows |-> RAdd(y_offset, RMul(I(row - 1), actual_grid_h))]
        filled == SelectSeq([k \in 1..(cols * rows) |-> k - 1],
                            LAMBDA c : ((c \div cols) + (c % cols)) % 2 = 0)
    IN  Distortion_boxes(xs \o <<>>, ys \o <<>>, filled, cols, actual_grid_w, actual_grid_h)

\* dwg.rect(insert=(x, y), size=(actual_grid_w, actual_grid_h), fill='black',
\* stroke='none') for each filled cell.
Distortion_rects(c) ==
    [k \in 1..Len(c) |-> Rect(c[k][1], c[k][2], c[k][3], c[k][4], "black", "none")]

Distortion_generate_svg_elements(params, x_offset, y_offset, section_width, section_height) ==
    LET g == Distortion_grid(params, section_width, section_height)
    IN  IF g.raised THEN Raised(g.warnings, g.requested)
        ELSE Returned(Distortion_rects(Distortion_cells(x_offset, y_offset, section_width,
                                                        section_height, g.used[1], g.used[2])),
                          g.warnings, g.requested, g.used)

---------------------------------------------------------------------------
(* LinePairPatternGenerator, single-frequency mode                         *)
(* (_generate_single_pattern_svg).  The two orientations run the same code *)
(* along the scan axis: span is section_width for 'vertical' and           *)
(* section_height otherwise.                                               *)

\* Lines 253-260 / 273-280: the requested line count and the density guard
\* on the drawn-line count (num_lines + 1)//2.
Single_num_drawn_lines(num_lines) == (num_lines + 1) \div 2

\* Faulty variant: the clamp one line pair too high.
Single_max_lines_one_pair_more == MAX_ELEMENTS_PER_PATTERN * 2 + 2

Single_max_lines == MAX_ELEMENTS_PER_PATTERN * 2

Single_lines(params, span) ==
    LET line_spacing == Get(params, "line_spacing", I(5))
        spacing_mm == RDiv(line_spacing, I(1000))
    IN  IF RIsZero(spacing_mm) THEN [raised |-> TRUE, warnings |-> <<>>, requested |-> <<>>, used |-> <<>>]
        ELSE
        LET num_lines0 == Max(1, PyInt(RDiv(span, spacing_mm)))
            num_drawn_lines == Single_num_drawn_lines(num_lines0)
        IN  IF validate_element_count(num_drawn_lines)
            THEN [raised |-> FALSE, warnings |-> <<>>, requested |-> <<num_lines0>>,
                  used |-> <<num_lines0>>]
            ELSE [raised |-> FALSE, warnings |-> Warnings(num_drawn_lines),
                  requested |-> <<num_lines0>>,
                  used |-> <<Min(num_lines0, Single_max_lines)>>]

\* for i in range(0, num_lines, 2): start + i * actual_spacing.
Single_drawn(start, actual_spacing, num_lines) ==
    [j \in 1..((num_lines + 1) \div 2) |->
        IF num_lines > 1 THEN RAdd(start, RMul(I(2 * (j - 1)), actual_spacing)) ELSE start]

\* Faulty variant: every line position is drawn, not every second one.
Single_positions_every_line(offset, span, num_lines) ==
    LET actual_spacing == IF num_lines > 1 THEN RDiv(span, I(Max(1, num_lines - 1))) ELSE span
        start == IF num_lines > 1 THEN offset ELSE RAdd(offset, RDiv(span, I(2)))
    IN  [j \in 1..((num_lines + 1) \div 2) |->
            IF num_lines > 1 THEN RAdd(start, RMul(I(j - 1), actual_spacing)) ELSE start]

\* Lines 262-267 / 282-287: the positions of the drawn lines
\* (i in range(0, num_lines, 2)) along the scan axis.
Single_positions(offset, span, num_lines) ==
    LET actual_spacing == IF num_lines > 1 THEN RDiv(span, I(Max(1, num_lines - 1))) ELSE span
        start == IF num_lines > 1
                 THEN RAdd(offset, RDiv(RSub(span, RMul(I(num_lines - 1), actual_spacing)), I(2)))
                 ELSE RAdd(offset, RDiv(span, I(2)))
    IN  Single_drawn(start, actual_spacing, num_lines)

\* The insert coordinate of a drawn line along the scan axis.
Single_insert(pos, width_mm) == RSub(pos, RDiv(width_mm, I(2)))

\* dwg.rect(...) for each drawn line (lines 264-267 / 284-287).
Single_rects(pos, vertical, width_mm, x_offset, y_offset, section_width, section_height) ==
    [j \in DOMAIN pos |->
        IF vertical
        THEN Rect(Single_insert(pos[j], width_mm), y_offset, width_mm, section_height, "black", "none")
        ELSE Rect(x_offset, Single_insert(pos[j], width_mm), section_width, width_mm, "black", "none")]

generate_single_pattern_svg(params, x_offset, y_offset, section_width, section_height) ==
    LET line_width == Get(params, "line_width", I(1))
        orientation == Get(params, "orientation", "vertical")
        width_mm == RDiv(line_width, I(1000))
        vertical == (orientation = "vertical")
        span == IF vertical THEN section_width ELSE section_height
        g == Single_lines(params, span)
    IN  IF g.raised THEN Raised(g.warnings, g.requested)
        ELSE Returned(Single_rects(Single_positions(IF vertical THEN x_offset ELSE y_offset, span,
                                                    g.used[1]),
                                   vertical, width_mm, x_offset, y_offset, section_width,
                                   section_height),
                          g.warnings, g.requested, g.used)

---------------------------------------------------------------------------
(* Coordinates of the 45-degree lines.  math.sqrt(pw^2 + ph^2) and         *)
(* math.sqrt(2) are irrational; a coordinate of such a line is kept as     *)
(*     q + e * sqrt(r) + s * sqrt(1/2)      (q, e, r, s rational, r >= 0)  *)
(* and compared exactly by squaring.                                       *)

Sgn(i) == IF i > 0 THEN 1 ELSE IF i < 0 THEN -1 ELSE 0

RSgn(a) == Sgn(a.n)

\* The sign of a/b - c/d for a, c >= 0 and b, d > 0, by the continued
\* fraction expansion of the two fractions (no product is formed).
RECURSIVE CmpFrac(_, _, _, _)
CmpFrac(a, b, c, d) ==
    IF a \div b # c \div d THEN Sgn((a \div b) - (c \div d))
    ELSE IF a % b = 0 \/ c % d = 0 THEN Sgn((a % b) - (c % d))
    ELSE CmpFrac(d, c % d, b, a % b)

\* The sign of y + b*sqrt(n) for integers y, b and n >= 0.
SgnIntSurd(y, b, n) ==
    IF b = 0 \/ n = 0 THEN Sgn(y)
    ELSE IF y = 0 THEN Sgn(b)
    ELSE IF Sgn(y) = Sgn(b) THEN Sgn(y)
    ELSE \* |y| against |b|*sqrt(n):  |y|/|b| against n*|b|/|y|
         CmpFrac(Abs(y), Abs(b), n * Abs(b), Abs(y)) * Sgn(y)

\* The sign of u + v for u = y + b*sqrt(n) of sign su and v = x*sqrt(2) of
\* sign sv.
SgnOfSum(su, sv, y, b, n, x) ==
    IF su = 0 THEN sv
    ELSE IF sv = 0 THEN su
    ELSE IF su = sv THEN su
    ELSE \* (y + b*sqrt(n))^2 against 2*x^2
         SgnIntSurd(y * y + b * b * n - 2 * x * x, 2 * y * b, n) * su

\* The sign of y + b*sqrt(n) + x*sqrt(2) for integers y, b, x and n >= 0.
SgnIntSurd2(y, b, n, x) == SgnOfSum(SgnIntSurd(y, b, n), Sgn(x), y, b, n, x)

IsSquare(n) == ISqrtIn(n, 0, Min(n, 46340)) * ISqrtIn(n, 0, Min(n, 46340)) = n

\* The sign of the integers y0 + b0*sqrt(n) + x0*sqrt(2), reduced by their
\* common divisor g0.
SdSignReduced(y0, b0, x0, n, g0) ==
    IF g0 = 0 THEN SgnIntSurd2(y0, b0, n, x0)
    ELSE SgnIntSurd2(y0 \div g0, b0 \div g0, n, x0 \div g0)

\* The sign of q + (e/t)*sqrt(n) + (s/2)*sqrt(2), brought to integers by
\* the common denominator l.
SdSignScaled(q, e, s, t, n, l) ==
    LET y0 == q.n * (l \div q.d)
        b0 == e.n * (l \div (e.d * t))
        x0 == s.n * (l \div (s.d * 2))
    IN  SdSignReduced(y0, b0, x0, n, GCD(GCD(Abs(y0), Abs(b0)), Abs(x0)))

\* sqrt(r) = sqrt(n) / t.
SdSignRoot(q, e, s, t, n) == SdSignScaled(q, e, s, t, n, LCM(LCM(q.d, e.d * t), s.d * 2))

\* The sign of q + e*sqrt(r) + s*sqrt(1/2) for rationals q, e, s and r >= 0:
\* the three terms are brought to the integers y + b*sqrt(n) + x*sqrt(2)
\* by a common positive factor.
SdSignInt(q, e, r, s) ==
    IF IsSquare(r.d) THEN SdSignRoot(q, e, s, ISqrtIn(r.d, 0, r.d), r.n)
    ELSE SdSignRoot(q, e, s, r.d, r.n * r.d)

\* The sign does not change when the sum is divided by |q| > 0, which
\* leaves only ratios of the lengths involved.
SdSign(q, e, r, s) ==
    IF q.n = 0 THEN SdSignInt(q, e, r, s)
    ELSE LET k == [n |-> Abs(q.n), d |-> q.d]
         IN  SdSignInt(RDiv(q, k), e, RDiv(RDiv(r, k), k), RDiv(s, k))

Sd(q, e, r, s) == [q |-> q, e |-> e, r |-> r, s |-> s]

\* a >= b for a coordinate a = q + e*sqrt(r) + s*sqrt(1/2) and a rational b.
SdGeQ(a, b) == SdSign(RSub(a.q, b), a.e, a.r, a.s) >= 0

SdLeQ(a, b) == SdSign(RSub(a.q, b), a.e, a.r, a.s) <= 0

---------------------------------------------------------------------------
(* LinePairPatternGenerator, multi-frequency mode                          *)

\* Lines 302-312: spacing_um, target_lines, orientation.
pattern_configs ==
    << [spacing_um |-> I(7),      target_lines |-> 3,  orientation |-> 0],
       [spacing_um |-> I(5),      target_lines |-> 5,  orientation |-> 45],
       [spacing_um |-> I(3),      target_lines |-> 7,  orientation |-> 90],
       [spacing_um |-> I(2),      target_lines |-> 10, orientation |-> 0],
       [spacing_um |-> I(1),      target_lines |-> 15, orientation |-> 45],
       [spacing_um |-> R(7, 10),  target_lines |-> 20, orientation |-> 90],
       [spacing_um |-> R(1, 2),   target_lines |-> 12, orientation |-> 0],
       [spacing_um |-> R(3, 10),  target_lines |-> 8,  orientation |-> 45],
       [spacing_um |-> R(1, 4),   target_lines |-> 6,  orientation |-> 90] >>

\* The margin of _generate_targeted_lines_svg: min(width, height) * 0.05.
Targeted_margin(width, height) == RMul(RMin(width, height), R(5, 100))

\* The bars of an angle-0 (horizontal) or angle-90 (vertical) sub-cell along
\* its scan axis: the offsets i*line_spacing, i in range(num_lines), that
\* pass the test  pos + line_width_mm <= pattern start + pattern extent.
Targeted_bar_positions(pattern_start, pattern_extent, line_width_mm, num_lines) ==
    LET line_spacing == RDiv(pattern_extent, I(num_lines))
        pos == [k \in 1..num_lines |-> RAdd(pattern_start, RMul(I(k - 1), line_spacing))]
    IN  SelectSeq(pos, LAMBDA v : RLe(RAdd(v, line_width_mm), RAdd(pattern_start, pattern_extent)))

\* Lines 459-478: the end points of one 45-degree line; start_offset_x is
\* a * sqrt(r) and line_length / (2*sqrt(2)) is hl * sqrt(1/2).
Targeted_diagonal(a, center_x, center_y, r, hl, line_width_mm) ==
    [kind |-> "line",
     x1 |-> Sd(center_x, a, r, RNeg(hl)),
     y1 |-> Sd(center_y, RNeg(a), r, hl),
     x2 |-> Sd(center_x, a, r, hl),
     y2 |-> Sd(center_y, RNeg(a), r, RNeg(hl)),
     stroke |-> "black", stroke_width |-> line_width_mm]

\* Lines 452-478: the loop over range(num_lines) and the test that keeps a
\* line inside the pattern area.
Targeted_diagonal_lines(num_lines, center_x, center_y, r, hl, line_width_mm, x_lo, x_hi, y_lo, y_hi) ==
    SelectSeq([k \in 1..num_lines |->
                  Targeted_diagonal(RDiv(RSub(I(k - 1), R(num_lines, 2)), I(num_lines)),
                                    center_x, center_y, r, hl, line_width_mm)],
              LAMBDA l : /\ SdGeQ(l.x1, x_lo)
                         /\ SdLeQ(l.x2, x_hi)
                         /\ SdGeQ(l.y2, y_lo)
                         /\ SdLeQ(l.y1, y_hi))

\* The 45-degree lines of a sub-cell (lines 444-478): diagonal_length /
\* sqrt(2) is sqrt(r), with r = (pattern_width^2 + pattern_height^2) / 2.
Targeted_diagonals(pattern_x, pattern_y, pattern_width, pattern_height, line_width_mm, num_lines) ==
    Targeted_diagonal_lines(
        num_lines,
        RAdd(pattern_x, RDiv(pattern_width, I(2))),
        RAdd(pattern_y, RDiv(pattern_height, I(2))),
        RDiv(RAdd(RMul(pattern_width, pattern_width), RMul(pattern_height, pattern_height)), I(2)),
        RDiv(RMul(RMin(pattern_width, pattern_height), R(7, 10)), I(2)),
        line_width_mm,
        pattern_x, RAdd(pattern_x, pattern_width), pattern_y, RAdd(pattern_y, pattern_height))

\* Lines 421-428 and 435-442: the rectangle of each bar that passed the test.
Targeted_bars(pos, horizontal, pattern_x, pattern_y, pattern_width, pattern_height, line_width_mm) ==
    [k \in DOMAIN pos |->
        IF horizontal THEN Rect(pattern_x, pos[k], pattern_width, line_width_mm, "black", "none")
        ELSE Rect(pos[k], pattern_y, line_width_mm, pattern_height, "black", "none")]

\* LinePairPatternGenerator._generate_targeted_lines_svg
generate_targeted_lines_svg(x_offset, y_offset, width, height, spacing_um, line_width_um, angle, target_lines) ==
    LET line_width_mm == RDiv(line_width_um, I(1000))
        mrg == Targeted_margin(width, height)
        pattern_width == RSub(width, RMul(I(2), mrg))
        pattern_height == RSub(height, RMul(I(2), mrg))
        pattern_x == RAdd(x_offset, mrg)
        pattern_y == RAdd(y_offset, mrg)
        num_lines == Min(target_lines, 25)
    IN  IF angle = 0
        THEN IF num_lines > 0 /\ pattern_height.n > 0
             THEN Targeted_bars(Targeted_bar_positions(pattern_y, pattern_height, line_width_mm, num_lines),
                                TRUE, pattern_x, pattern_y, pattern_width, pattern_height, line_width_mm)
             ELSE <<>>
        ELSE IF angle = 90
        THEN IF num_lines > 0 /\ pattern_width.n > 0
             THEN Targeted_bars(Targeted_bar_positions(pattern_x, pattern_width, line_width_mm, num_lines),
                                FALSE, pattern_x, pattern_y, pattern_width, pattern_height, line_width_mm)
             ELSE <<>>
        ELSE IF angle = 45
        THEN IF num_lines > 0
             THEN Targeted_diagonals(pattern_x, pattern_y, pattern_width, pattern_height,
                                     line_width_mm, num_lines)
             ELSE <<>>
        ELSE <<>>

\* The text of the spacing label: f"{spacing_um}um" for spacing_um >= 1,
\* else f"{int(spacing_um*1000)}nm", kept as <<number, unit>>.
spacing_text(spacing_um) ==
    IF RLe(I(1), spacing_um) THEN <<spacing_um, "um">>
    ELSE <<I(PyInt(RMul(spacing_um, I(1000)))), "nm">>

\* One sub-cell of _generate_multi_pattern_svg (lines 327-388): the lines,
\* the three labels, the border.
Multi_cell_svg(x_offset, y_offset, sub_width, sub_height, pattern_index) ==
    LET row == pattern_index \div 3
        col == pattern_index % 3
        sub_x == RAdd(x_offset, RMul(I(col), sub_width))
        sub_y == RAdd(y_offset, RMul(I(row), sub_height))
        config == pattern_configs[pattern_index + 1]
        line_width_um == RMul(config.spacing_um, R(3, 10))
        label_x == RAdd(sub_x, I(1))
        label_y == RSub(RAdd(sub_y, sub_height), R(1, 2))
    IN  generate_targeted_lines_svg(sub_x, sub_y, sub_width, sub_height, config.spacing_um,
                                    line_width_um, config.orientation, config.target_lines)
        \o << Text(spacing_text(config.spacing_um), label_x, label_y, "black"),
              Text(<<I(config.orientation), "deg">>, label_x, RSub(label_y, R(12, 10)), "gray"),
              Text(<<I(config.target_lines), "L">>, label_x, RSub(label_y, I(2)), "blue"),
              Rect(sub_x, sub_y, sub_width, sub_height, "none", "lightgray") >>

RECURSIVE Multi_cells_svg(_, _, _, _, _)
Multi_cells_svg(x_offset, y_offset, sub_width, sub_height, pattern_index) ==
    IF pattern_index >= Len(pattern_configs) \/ pattern_index >= 3 * 3 THEN <<>>
    ELSE Multi_cell_svg(x_offset, y_offset, sub_width, sub_height, pattern_index)
         \o Multi_cells_svg(x_offset, y_offset, sub_width, sub_height, pattern_index + 1)

generate_multi_pattern_svg(params, x_offset, y_offset, section_width, section_height) ==
    LET sub_width == RDiv(section_width, I(3))
        sub_height == RDiv(section_height, I(3))
    IN  Returned(Multi_cells_svg(x_offset, y_offset, sub_width, sub_height, 0), <<>>, <<>>, <<>>)

\* LinePairPatternGenerator.generate_svg_elements
LinePair_generate_svg_elements(params, x_offset, y_offset, section_width, section_height) ==
    IF Get(params, "pattern_type", "multi") = "single"
    THEN generate_single_pattern_svg(params, x_offset, y_offset, section_width, section_height)
    ELSE generate_multi_pattern_svg(params, x_offset, y_offset, section_width, section_height)

---------------------------------------------------------------------------
(* AlignmentPatternGenerator.generate_svg_elements                         *)

\* Faulty variant: the inner dot a quarter of the marker size in radius.
Fiducial_inner_radius_quarter(marker_size) == RDiv(marker_size, I(4))

\* The radius of the fiducial's inner dot: marker_size/8.
Fiducial_inner_radius(marker_size) == RDiv(marker_size, I(8))

\* Faulty variant: every second graduation is a tall one.
grad_height_every_second(i) == IF i % 2 = 0 THEN R(2, 10) ELSE R(1, 10)

\* grad_height = 0.2 if i % 5 == 0 else 0.1
grad_height_of(i) == IF i % 5 = 0 THEN R(2, 10) ELSE R(1, 10)

Alignment_generate_svg_elements(params, x_offset, y_offset, section_width, section_height) ==
    LET marker_type == Get(params, "marker_type", "crosshair")
        marker_size == Get(params, "marker_size", I(2))
        center_x == RAdd(x_offset, RDiv(section_width, I(2)))
        center_y == RAdd(y_offset, RDiv(section_height, I(2)))
        half == RDiv(marker_size, I(2))
        sw == R(1, 10)
    IN  IF marker_type = "crosshair"
        THEN Returned(<< Line(RSub(center_x, half), center_y, RAdd(center_x, half), center_y, sw),
                         Line(center_x, RSub(center_y, half), center_x, RAdd(center_y, half), sw) >>,
                      <<>>, <<>>, <<>>)
        ELSE IF marker_type = "fiducial"
        THEN Returned(<< Circle(center_x, center_y, half, "none", "black"),
                         Circle(center_x, center_y, Fiducial_inner_radius(marker_size), "black", "none") >>,
                      <<>>, <<>>, <<>>)
        ELSE IF marker_type = "scale_bar"
        THEN LET bar_length == marker_size
                 num_graduations == 10
                 grad_spacing == RDiv(bar_length, I(num_graduations))
                 left == RSub(center_x, RDiv(bar_length, I(2)))
                 grad(i) ==
                     LET x == RAdd(left, RMul(I(i), grad_spacing))
                         grad_height == grad_height_of(i)
                     IN  Line(x, RSub(center_y, RDiv(grad_height, I(2))),
                              x, RAdd(center_y, RDiv(grad_height, I(2))), R(5, 100))
             IN  Returned(<< Line(left, center_y, RAdd(center_x, RDiv(bar_length, I(2))), center_y, sw) >>
                              \o [k \in 1..(num_graduations + 1) |-> grad(k - 1)],
                          <<>>, <<>>, <<>>)
        ELSE Returned(<<>>, <<>>, <<>>, <<>>)

---------------------------------------------------------------------------
(* The DXF path: generate_dxf_elements adds entities to the modelspace.    *)
(* The counts and positions are computed by the same statements as on the  *)
(* SVG path (lines 92-120, 181-210, 495-540, 626-691 repeat lines 55-83,   *)
(* 143-172, 244-287, 402-471), so the operators for them are shared.       *)

DxfCircle(cx, cy, r) == [kind |-> "CIRCLE", cx |-> cx, cy |-> cy, r |-> r]

\* A SOLID hatch whose boundary is the closed polyline through num_points
\* points on the circle of radius r about (cx, cy).
DxfHatch(cx, cy, r) ==
    [kind |-> "HATCH", pattern |-> "SOLID", cx |-> cx, cy |-> cy, r |-> r, num_points |-> 20]

LwPolyline(points) == [kind |-> "LWPOLYLINE", points |-> points, close |-> TRUE]

\* Faulty variant: the rectangle with its y axis flipped.
BoxPoints_y_flipped(x, y, w, h) ==
    << <<x, RNeg(y)>>, <<RAdd(x, w), RNeg(y)>>, <<RAdd(x, w), RNeg(RAdd(y, h))>>,
       <<x, RNeg(RAdd(y, h))>>, <<x, RNeg(y)>> >>

\* The five points (first corner repeated) the source passes for a rectangle.
BoxPoints(x, y, w, h) ==
    << <<x, y>>, <<RAdd(x, w), y>>, <<RAdd(x, w), RAdd(y, h)>>, <<x, RAdd(y, h)>>, <<x, y>> >>

DxfLine(x1, y1, x2, y2) == [kind |-> "LINE", x1 |-> x1, y1 |-> y1, x2 |-> x2, y2 |-> y2]

DxfText(text, x, y, height) == [kind |-> "TEXT", text |-> text, x |-> x, y |-> y, height |-> height]

\* msp.add_circle and msp.add_hatch for each centre (lines 122-134).
Resolution_dxf_circles(c, radius) ==
    [k \in 1..(2 * Len(c)) |->
        IF k % 2 = 1
        THEN DxfCircle(c[(k + 1) \div 2][1], c[(k + 1) \div 2][2], radius)
        ELSE DxfHatch(c[k \div 2][1], c[k \div 2][2], radius)]

\* ResolutionPatternGenerator.generate_dxf_elements
Resolution_generate_dxf_elements(params, x_offset, y_offset, section_width, section_height) ==
    LET g == Resolution_grid(params, section_width, section_height)
        radius == RDiv(Resolution_dot_diameter(params), I(2))
    IN  IF g.raised THEN Raised(g.warnings, g.requested)
        ELSE Returned(Resolution_dxf_circles(Resolution_centres(x_offset, y_offset, section_width,
                                                                section_height, g.used[1], g.used[2]),
                                             radius),
                          g.warnings, g.requested, g.used)

\* msp.add_lwpolyline(points, close=True) for each filled cell.
Distortion_polylines(c) ==
    [k \in 1..Len(c) |-> LwPolyline(BoxPoints(c[k][1], c[k][2], c[k][3], c[k][4]))]

\* DistortionPatternGenerator.generate_dxf_elements
Distortion_generate_dxf_elements(params, x_offset, y_offset, section_width, section_height) ==
    LET g == Distortion_grid(params, section_width, section_height)
    IN  IF g.raised THEN Raised(g.warnings, g.requested)
        ELSE Returned(Distortion_polylines(Distortion_cells(x_offset, y_offset, section_width,
                                                            section_height, g.used[1], g.used[2])),
                          g.warnings, g.requested, g.used)

\* msp.add_lwpolyline(points, close=True) for each drawn line (lines
\* 518-526 / 539-547).
Single_polyline(lo, hi, vertical, x_offset, y_offset, section_width, section_height) ==
    IF vertical
    THEN LwPolyline(<< <<lo, y_offset>>, <<hi, y_offset>>,
                       <<hi, RAdd(y_offset, section_height)>>,
                       <<lo, RAdd(y_offset, section_height)>>,
                       <<lo, y_offset>> >>)
    ELSE LwPolyline(<< <<x_offset, lo>>,
                       <<RAdd(x_offset, section_width), lo>>,
                       <<RAdd(x_offset, section_width), hi>>,
                       <<x_offset, hi>>,
                       <<x_offset, lo>> >>)

Single_polylines(pos, vertical, width_mm, x_offset, y_offset, section_width, section_height) ==
    [j \in DOMAIN pos |->
        Single_polyline(RSub(pos[j], RDiv(width_mm, I(2))), RAdd(pos[j], RDiv(width_mm, I(2))),
                        vertical, x_offset, y_offset, section_width, section_height)]

\* LinePairPatternGenerator._generate_single_pattern_dxf
generate_single_pattern_dxf(params, x_offset, y_offset, section_width, section_height) ==
    LET line_width == Get(params, "line_width", I(1))
        orientation == Get(params, "orientation", "vertical")
        width_mm == RDiv(line_width, I(1000))
        vertical == (orientation = "vertical")
        span == IF vertical THEN section_width ELSE section_height
        g == Single_lines(params, span)
    IN  IF g.raised THEN Raised(g.warnings, g.requested)
        ELSE Returned(Single_polylines(Single_positions(IF vertical THEN x_offset ELSE y_offset,
                                                        span, g.used[1]),
                                       vertical, width_mm, x_offset, y_offset, section_width,
                                       section_height),
                          g.warnings, g.requested, g.used)

\* Lines 642-649 and 657-664: the closed polyline of each bar that passed the test.
Targeted_dxf_bars(pos, horizontal, pattern_x, pattern_y, pattern_width, pattern_height, line_width_mm) ==
    [k \in DOMAIN pos |->
        IF horizontal THEN LwPolyline(BoxPoints(pattern_x, pos[k], pattern_width, line_width_mm))
        ELSE LwPolyline(BoxPoints(pos[k], pattern_y, line_width_mm, pattern_height))]

\* Lines 688-693: msp.add_line for each 45-degree line that passed the test.
Targeted_dxf_lines(d) == [k \in DOMAIN d |-> DxfLine(d[k].x1, d[k].y1, d[k].x2, d[k].y2)]

\* LinePairPatternGenerator._generate_targeted_lines_dxf
generate_targeted_lines_dxf(x_offset, y_offset, width, height, spacing_um, line_width_um, angle, target_lines) ==
    LET line_width_mm == RDiv(line_width_um, I(1000))
        mrg == Targeted_margin(width, height)
        pattern_width == RSub(width, RMul(I(2), mrg))
        pattern_height == RSub(height, RMul(I(2), mrg))
        pattern_x == RAdd(x_offset, mrg)
        pattern_y == RAdd(y_offset, mrg)
        num_lines == Min(target_lines, 25)
    IN  IF angle = 0
        THEN IF num_lines > 0 /\ pattern_height.n > 0
             THEN Targeted_dxf_bars(Targeted_bar_positions(pattern_y, pattern_height, line_width_mm, num_lines),
                                    TRUE, pattern_x, pattern_y, pattern_width, pattern_height, line_width_mm)
             ELSE <<>>
        ELSE IF angle = 90
        THEN IF num_lines > 0 /\ pattern_width.n > 0
             THEN Targeted_dxf_bars(Targeted_bar_positions(pattern_x, pattern_width, line_width_mm, num_lines),
                                    FALSE, pattern_x, pattern_y, pattern_width, pattern_height, line_width_mm)
             ELSE <<>>
        ELSE IF angle = 45
        THEN IF num_lines > 0
             THEN Targeted_dxf_lines(Targeted_diagonals(pattern_x, pattern_y, pattern_width,
                                                        pattern_height, line_width_mm, num_lines))
             ELSE <<>>
        ELSE <<>>

\* One sub-cell of _generate_multi_pattern_dxf (lines 579-617): the lines,
\* the border, the three labels.
Multi_cell_dxf(x_offset, y_offset, sub_width, sub_height, pattern_index) ==
    LET row == pattern_index \div 3
        col == pattern_index % 3
        sub_x == RAdd(x_offset, RMul(I(col), sub_width))
        sub_y == RAdd(y_offset, RMul(I(row), sub_height))
        config == pattern_configs[pattern_index + 1]
        line_width_um == RMul(config.spacing_um, R(3, 10))
        base == RAdd(sub_y, sub_height)
    IN  generate_targeted_lines_dxf(sub_x, sub_y, sub_width, sub_height, config.spacing_um,
                                    line_width_um, config.orientation, config.target_lines)
        \o << LwPolyline(BoxPoints(sub_x, sub_y, sub_width, sub_height)),
              DxfText(spacing_text(config.spacing_um), RAdd(sub_x, I(1)), RSub(base, R(5, 10)), R(8, 10)),
              DxfText(<<I(config.orientation), "deg">>, RAdd(sub_x, I(1)), RSub(base, R(17, 10)), R(6, 10)),
              DxfText(<<I(config.target_lines), "L">>, RAdd(sub_x, I(1)), RSub(base, R(26, 10)), R(6, 10)) >>

RECURSIVE Multi_cells_dxf(_, _, _, _, _)
Multi_cells_dxf(x_offset, y_offset, sub_width, sub_height, pattern_index) ==
    IF pattern_index >= Len(pattern_configs) \/ pattern_index >= 3 * 3 THEN <<>>
    ELSE Multi_cell_dxf(x_offset, y_offset, sub_width, sub_height, pattern_index)
         \o Multi_cells_dxf(x_offset, y_offset, sub_width, sub_height, pattern_index + 1)

generate_multi_pattern_dxf(params, x_offset, y_offset, section_width, section_height) ==
    LET sub_width == RDiv(section_width, I(3))
        sub_height == RDiv(section_height, I(3))
    IN  Returned(Multi_cells_dxf(x_offset, y_offset, sub_width, sub_height, 0), <<>>, <<>>, <<>>)

\* LinePairPatternGenerator.generate_dxf_elements
LinePair_generate_dxf_elements(params, x_offset, y_offset, section_width, section_height) ==
    IF Get(params, "pattern_type", "multi") = "single"
    THEN generate_single_pattern_dxf(params, x_offset, y_offset, section_width, section_height)
    ELSE generate_multi_pattern_dxf(params, x_offset, y_offset, section_width, section_height)

\* AlignmentPatternGenerator.generate_dxf_elements
Alignment_generate_dxf_elements(params, x_offset, y_offset, section_width, section_height) ==
    LET marker_type == Get(params, "marker_type", "crosshair")
        marker_size == Get(params, "marker_size", I(2))
        center_x == RAdd(x_offset, RDiv(section_width, I(2)))
        center_y == RAdd(y_offset, RDiv(section_height, I(2)))
        half == RDiv(marker_size, I(2))
    IN  IF marker_type = "crosshair"
        THEN Returned(<< DxfLine(RSub(center_x, half), center_y, RAdd(center_x, half), center_y),
                         DxfLine(center_x, RSub(center_y, half), center_x, RAdd(center_y, half)) >>,
                      <<>>, <<>>, <<>>)
        ELSE IF marker_type = "fiducial"
        THEN Returned(<< DxfCircle(center_x, center_y, half),
                         DxfCircle(center_x, center_y, Fiducial_inner_radius(marker_size)) >>,
                      <<>>, <<>>, <<>>)
        ELSE IF marker_type = "scale_bar"
        THEN LET bar_length == marker_size
                 num_graduations == 10
                 grad_spacing == RDiv(bar_length, I(num_graduations))
                 left == RSub(center_x, RDiv(bar_length, I(2)))
                 grad(i) ==
                     LET x == RAdd(left, RMul(I(i), grad_spacing))
                         grad_height == grad_height_of(i)
                     IN  DxfLine(x, RSub(center_y, RDiv(grad_height, I(2))),
                                 x, RAdd(center_y, RDiv(grad_height, I(2))))
             IN  Returned(<< DxfLine(left, center_y, RAdd(center_x, RDiv(bar_length, I(2))), center_y) >>
                              \o [k \in 1..(num_graduations + 1) |-> grad(k - 1)],
                          <<>>, <<>>, <<>>)
        ELSE Returned(<<>>, <<>>, <<>>, <<>>)

---------------------------------------------------------------------------
(* Dispatch on the generator class, as generator_class(pattern_type,       *)
(* params).generate_svg_elements / generate_dxf_elements does.             *)

\* The two export formats.
Formats == {"svg", "dxf"}

PatternTypes ==
    {"Resolution Patterns", "Distortion Patterns", "Line Pair Patterns", "Alignment Markers"}

generate_svg_elements(cls, params, x_offset, y_offset, section_width, section_height) ==
    CASE cls = "Resolution Patterns" ->
             Resolution_generate_svg_elements(params, x_offset, y_offset, section_width, section_height)
      [] cls = "Distortion Patterns" ->
             Distortion_generate_svg_elements(params, x_offset, y_offset, section_width, section_height)
      [] cls = "Line Pair Patterns" ->
             LinePair_generate_svg_elements(params, x_offset, y_offset, section_width, section_height)
      [] cls = "Alignment Markers" ->
             Alignment_generate_svg_elements(params, x_offset, y_offset, section_width, section_height)

generate_dxf_elements(cls, params, x_offset, y_offset, section_width, section_height) ==
    CASE cls = "Resolution Patterns" ->
             Resolution_generate_dxf_elements(params, x_offset, y_offset, section_width, section_height)
      [] cls = "Distortion Patterns" ->
             Distortion_generate_dxf_elements(params, x_offset, y_offset, section_width, section_height)
      [] cls = "Line Pair Patterns" ->
             LinePair_generate_dxf_elements(params, x_offset, y_offset, section_width, section_height)
      [] cls = "Alignment Markers" ->
             Alignment_generate_dxf_elements(params, x_offset, y_offset, section_width, section_height)

---------------------------------------------------------------------------
(* CalibrationPlateDesigner: the state after __init__ and the handlers.    *)

\* update_parameters: the parameter variables created for a pattern type,
\* with the values their widgets start with.
update_parameters(pattern_type) ==
    CASE pattern_type = "Resolution Patterns" ->
             [dot_spacing |-> R(1, 4), dot_diameter |-> R(1, 8)]
      [] pattern_type = "Distortion Patterns" ->
             [grid_size |-> I(1)]
      [] pattern_type = "Line Pair Patterns" ->
             [pattern_type |-> "multi", line_spacing |-> I(5), line_width |-> I(1),
              orientation |-> "vertical"]
      [] pattern_type = "Alignment Markers" ->
             [marker_type |-> "crosshair", marker_size |-> I(2)]

\* get_section_parameters: the current value of every parameter variable.
get_section_parameters(section_idx) == section_configs[section_idx].params

Ready == [text |-> "Ready", n |-> 0]

NoRun ==
    [fmt |-> "none", filename |-> "", i |-> 0, sections |-> <<>>,
     section_w |-> I(0), section_h |-> I(0), total_elements |-> 0]

NoLayout == [done |-> FALSE, sections |-> <<>>, section_w |-> I(0), section_h |-> I(0)]

NoCall ==
    [cls |-> "none", fmt |-> "none", params |-> NoParams,
     x |-> I(0), y |-> I(0), w |-> I(0), h |-> I(0)]

NoRet ==
    [done |-> FALSE, raised |-> FALSE, elements |-> <<>>, warnings |-> <<>>,
     requested |-> <<>>, used |-> <<>>]

\* __init__ (lines 802-828) and create_widgets: the section configurations
\* and the status label.
Constructed ==
    /\ section_configs =
           [i \in 1..4 |->
               LET t == << "Resolution Patterns", "Distortion Patterns",
                           "Line Pair Patterns", "Alignment Markers" >>[i]
               IN  [pattern_type |-> t, params |-> update_parameters(t)]]
    /\ status_label = Ready
    /\ dialogs = <<>>
    /\ pc = "idle"
    /\ run = NoRun
    /\ dwg = <<>>
    /\ files = <<>>
    /\ invoked = <<>>
    /\ edits = 0
    /\ exports = 0

---------------------------------------------------------------------------
(* Specification Spec: the application.  The user edits the plate          *)
(* dimensions and the section configurations and starts exports; an export *)
(* handler (generate_svg, generate_dxf) runs in steps that end where the   *)
(* handler calls self.root.update().  The two handlers have the same       *)
(* shape; fmt tells them apart.  svgwrite and ezdxf accept every number    *)
(* they are given.  The drawing is kept as the sequence of additions made  *)
(* to it: what was added (role), for which section, and how many elements. *)

MaxEdits == 1
MaxExports == 2

\* Values the user types into the three plate entries before an export.
PlateChoices ==
    { <<I(6), I(4), I(1)>>, <<I(0), I(4), I(1)>>, <<I(4), I(-1), I(1)>>, <<I(4), I(4), I(2)>> }

\* The <<section, pattern type>> selections the user makes in the comboboxes.
SelectChoices ==
    { <<1, "Alignment Markers">>, <<3, "Distortion Patterns">> }

\* Values the user gives a parameter widget.
ParamChoices(key) ==
    CASE key = "grid_size"    -> { I(0), I(2) }
      [] key = "marker_type"  -> { "fiducial" }
      [] OTHER -> {}

Init ==
    /\ plate_width = R(508, 5) /\ plate_height = R(508, 5) /\ margin = I(10)
    /\ SVG_AVAILABLE \in BOOLEAN /\ DXF_AVAILABLE \in BOOLEAN
    /\ Constructed
    /\ generators = <<>> /\ history = <<>>
    /\ layout = NoLayout
    /\ call = NoCall
    /\ ret = NoRet

\* The user changes the Width, Height and Margin entries.
SetPlateDimensions ==
    /\ pc = "idle" /\ edits < MaxEdits
    /\ \E t \in PlateChoices :
          /\ plate_width' = t[1]
          /\ plate_height' = t[2]
          /\ margin' = t[3]
    /\ edits' = edits + 1
    /\ UNCHANGED <<objVars, section_configs, SVG_AVAILABLE, DXF_AVAILABLE, status_label, dialogs, pc,
                   run, dwg, files, invoked, exports, layout, genVars>>

\* The user picks a pattern type in a section's combobox: the
\* <<ComboboxSelected>> binding runs update_parameters(idx).
SelectPatternType ==
    /\ pc = "idle" /\ edits < MaxEdits
    /\ \E s \in SelectChoices :
          section_configs' =
              [section_configs EXCEPT ![s[1]] = [pattern_type |-> s[2],
                                                params |-> update_parameters(s[2])]]
    /\ edits' = edits + 1
    /\ UNCHANGED <<objVars, plateVars, SVG_AVAILABLE, DXF_AVAILABLE, status_label, dialogs, pc,
                   run, dwg, files, invoked, exports, layout, genVars>>

\* The user changes the value of one parameter widget of a section.
SetParameter ==
    /\ pc = "idle" /\ edits < MaxEdits
    /\ \E idx \in 1..4 :
          \E key \in DOMAIN section_configs[idx].params :
              \E v \in ParamChoices(key) :
                  section_configs' = [section_configs EXCEPT ![idx].params[key] = v]
    /\ edits' = edits + 1
    /\ UNCHANGED <<objVars, plateVars, SVG_AVAILABLE, DXF_AVAILABLE, status_label, dialogs, pc,
                   run, dwg, files, invoked, exports, layout, genVars>>

\* Faulty variant: both handlers test the SVG library.
Available_svg_only(fmt) == SVG_AVAILABLE

Available(fmt) == IF fmt = "svg" THEN SVG_AVAILABLE ELSE DXF_AVAILABLE

Status(svg_text, dxf_text, fmt, n) ==
    [text |-> IF fmt = "svg" THEN svg_text ELSE dxf_text, n |-> n]

Added(role, section, count) == [role |-> role, section |-> section, count |-> count]

Dialog(fn, text) == [call |-> fn, text |-> text]

\* Lines 1021-1023 / 1123-1125: the library is missing.
ExportUnavailable(fmt) ==
    /\ pc = "idle" /\ exports < MaxExports
    /\ ~Available(fmt)
    /\ dialogs' = << Dialog("showerror", IF fmt = "svg" THEN "svgwrite library not available"
                                                      ELSE "ezdxf library not available") >>
    /\ invoked' = <<>>
    /\ exports' = exports + 1
    /\ UNCHANGED <<objVars, plateVars, section_configs, SVG_AVAILABLE, DXF_AVAILABLE, status_label, pc,
                   run, dwg, files, edits, layout, genVars>>

\* Lines 1026-1032 / 1128-1134: the user closes the file dialog without a
\* file name.
ExportCancelled(fmt) ==
    /\ pc = "idle" /\ exports < MaxExports
    /\ Available(fmt)
    /\ dialogs' = << Dialog("asksaveasfilename", "") >>
    /\ invoked' = <<>>
    /\ exports' = exports + 1
    /\ UNCHANGED <<objVars, plateVars, section_configs, SVG_AVAILABLE, DXF_AVAILABLE, status_label, pc,
                   run, dwg, files, edits, layout, genVars>>

\* Lines 1026-1036 / 1128-1138: the user gives a file name.
ExportBegin(fmt) ==
    /\ pc = "idle" /\ exports < MaxExports
    /\ Available(fmt)
    /\ dialogs' = << Dialog("asksaveasfilename", "plate") >>
    /\ status_label' = Status("Generating SVG file...", "Generating DXF file...", fmt, 0)
    /\ run' = [NoRun EXCEPT !.fmt = fmt, !.filename = "plate"]
    /\ dwg' = <<>>
    /\ invoked' = <<>>
    /\ exports' = exports + 1
    /\ pc' = "prepare"
    /\ UNCHANGED <<objVars, plateVars, section_configs, SVG_AVAILABLE, DXF_AVAILABLE, files, edits,
                   layout, genVars>>

\* Lines 1038-1063 / 1140-1169: the validation of the plate dimensions, the
\* drawing with the plate outline, the section layout.
ExportPrepare ==
    /\ pc = "prepare"
    /\ IF RLe(plate_width, I(0)) \/ RLe(plate_height, I(0))
       THEN /\ dialogs' = Append(dialogs, Dialog("showerror", "Plate dimensions must be positive numbers"))
            /\ status_label' = Ready
            /\ pc' = "idle"
            /\ UNCHANGED <<run, dwg>>
       ELSE LET l == calculate_section_dimensions(plate_width, plate_height, margin)
            IN  /\ dwg' = << Added("plate_outline", 0, 1) >>
                /\ run' = [run EXCEPT !.sections = l.sections, !.section_w = l.section_w,
                                      !.section_h = l.section_h, !.i = 1]
                /\ status_label' = Status("Generating SVG - Section", "Generating DXF - Section",
                                          run.fmt, 1)
                /\ pc' = "section"
                /\ UNCHANGED dialogs
    /\ UNCHANGED <<objVars, plateVars, section_configs, SVG_AVAILABLE, DXF_AVAILABLE, files, invoked,
                   edits, exports, layout, genVars>>

\* len(elements)
len(elements) == Cardinality(DOMAIN elements)

\* Lines 1082-1108 / 1182-1210: the two labels and the outline that follow
\* a section's pattern.
SectionTrailer(i) ==
    << Added("section_label", i, 1), Added("pattern_label", i, 1), Added("section_outline", i, 1) >>

\* Faulty variant: the handler reports the error and goes on to the save step.
ExceptBranch_saves_anyway(fmt) ==
    /\ dialogs' = Append(dialogs, Dialog("showerror", "Failed to generate"))
    /\ status_label' = Status("Saving SVG file...", "Saving DXF file...", fmt, 0)
    /\ pc' = "save"

\* Lines 1118-1120 / 1223-1225: except Exception.
ExceptBranch(fmt) ==
    /\ dialogs' = Append(dialogs, Dialog("showerror", "Failed to generate"))
    /\ status_label' = Status("Error generating SVG", "Error generating DXF", fmt, 0)
    /\ pc' = "idle"

\* Faulty variant: the loop over the sections ends one section early.
LoopContinues_one_short(i, sections) == i < Len(sections) - 1

\* for i, (x_offset, y_offset) in enumerate(sections): after the section
\* with number i (1-based) another iteration follows.
LoopContinues(i, sections) == i < Len(sections)

\* Lines 1065-1108 / 1171-1210 for section run.i, then the status of the
\* next iteration or of the save step; lines 1118-1120 / 1223-1225 when the
\* generator raises.
ExportSection ==
    /\ pc = "section"
    /\ LET i == run.i
           x_offset == run.sections[i][1]
           y_offset == run.sections[i][2]
           pattern_type == section_configs[i].pattern_type
           params == get_section_parameters(i)
       IN  \E r \in { IF run.fmt = "svg"
                      THEN generate_svg_elements(pattern_type, params, x_offset, y_offset,
                                                 run.section_w, run.section_h)
                      ELSE generate_dxf_elements(pattern_type, params, x_offset, y_offset,
                                                 run.section_w, run.section_h) } :
               /\ invoked' = Append(invoked, i)
               /\ IF r.raised
                  THEN /\ ExceptBranch(run.fmt)
                       /\ UNCHANGED <<run, dwg>>
                  ELSE /\ dwg' = dwg \o << Added("pattern", i, len(r.elements)) >>
                                     \o SectionTrailer(i)
                       /\ run' = [run EXCEPT !.i = IF LoopContinues(i, run.sections) THEN i + 1 ELSE i,
                                             !.total_elements =
                                                 IF run.fmt = "svg" THEN @ + len(r.elements) ELSE @]
                       /\ status_label' =
                              IF LoopContinues(i, run.sections)
                              THEN Status("Generating SVG - Section", "Generating DXF - Section",
                                          run.fmt, i + 1)
                              ELSE Status("Saving SVG file...", "Saving DXF file...", run.fmt, 0)
                       /\ pc' = IF LoopContinues(i, run.sections) THEN "section" ELSE "save"
                       /\ UNCHANGED dialogs
    /\ UNCHANGED <<objVars, plateVars, section_configs, SVG_AVAILABLE, DXF_AVAILABLE, files, edits,
                   exports, layout, genVars>>

RECURSIVE EntityCount(_)
EntityCount(d) == IF d = <<>> THEN 0 ELSE Head(d).count + EntityCount(Tail(d))

\* Lines 1114-1116 / 1216-1221: the file is written.  A written file is
\* kept by its name, its format, the plate it draws and its entity count.
ExportSave ==
    /\ pc = "save"
    /\ files' = Append(files, [filename |-> run.filename, fmt |-> run.fmt,
                               plate_w |-> plate_width, plate_h |-> plate_height,
                               margin |-> margin, entities |-> EntityCount(dwg)])
    /\ status_label' = Status("SVG saved", "DXF saved", run.fmt,
                              IF run.fmt = "svg" THEN run.total_elements ELSE EntityCount(dwg))
    /\ dialogs' = Append(dialogs, Dialog("showinfo", "file saved successfully"))
    /\ pc' = "idle"
    /\ UNCHANGED <<objVars, plateVars, section_configs, SVG_AVAILABLE, DXF_AVAILABLE, run, dwg, invoked,
                   edits, exports, layout, genVars>>

\* Lines 1114 / 1216 raise (the file cannot be written), then lines
\* 1118-1120 / 1223-1225.
ExportSaveFails ==
    /\ pc = "save"
    /\ ExceptBranch(run.fmt)
    /\ UNCHANGED <<objVars, plateVars, section_configs, SVG_AVAILABLE, DXF_AVAILABLE, run, dwg, files,
                   invoked, edits, exports, layout, genVars>>

Next ==
    \/ SetPlateDimensions
    \/ SelectPatternType
    \/ SetParameter
    \/ \E fmt \in Formats : ExportUnavailable(fmt)
    \/ \E fmt \in Formats : ExportCancelled(fmt)
    \/ \E fmt \in Formats : ExportBegin(fmt)
    \/ ExportPrepare
    \/ ExportSection
    \/ ExportSave
    \/ ExportSaveFails

Spec == Init /\ [][Next]_vars

---------------------------------------------------------------------------
(* Specification SpecGen: one generator call.  A call is a generator class *)
(* constructed with params and asked for the SVG or the DXF elements of a  *)
(* section rectangle.                                                      *)

MaxSpanHalves == 4

Call(cls, fmt, params, xy, wh) ==
    [cls |-> cls, fmt |-> fmt, params |-> params,
     x |-> xy[1], y |-> xy[2], w |-> wh[1], h |-> wh[2]]

Origins == { <<I(0), I(0)>>, <<R(1, 2), I(1)>> }

SmallSpans == { R(k, 2) : k \in 1..MaxSpanHalves }

SmallRects == SmallSpans \X SmallSpans

\* Sections that drive the dot array over the element limit, sections of
\* extreme aspect ratio, the 20 mm square, and sections one dot wide or high.
ResolutionRects ==
    { <<I(30), I(30)>>, <<I(40), I(30)>>, <<R(1, 8), I(2501)>>, <<I(2501), R(1, 8)>>,
      <<I(20), I(20)>>, <<R(1, 4), I(1)>>, <<I(1), R(3, 8)>>, <<R(1, 4), R(1, 4)>> }

ResolutionParams ==
    { NoParams,
      [dot_spacing |-> R(1, 4), dot_diameter |-> R(1, 8)],
      [dot_spacing |-> I(2), dot_diameter |-> R(1, 2)],
      [dot_spacing |-> R(1, 2), dot_diameter |-> R(1, 4)] }

ResolutionCalls ==
    { Call("Resolution Patterns", f, p, o, wh) :
          f \in Formats, p \in ResolutionParams, o \in Origins, wh \in SmallRects }
    \cup
    { Call("Resolution Patterns", f, p, <<I(0), I(0)>>, wh) :
          f \in Formats, p \in {NoParams, [dot_spacing |-> I(2), dot_diameter |-> R(1, 2)]},
          wh \in ResolutionRects }

\* Grids around the limit of 20000 cells, a section of extreme aspect
\* ratio, and the 10 mm square.
DistortionRects ==
    { <<I(177), I(113)>>, <<I(150), I(150)>>, <<I(200), I(100)>>, <<I(20002), R(1, 2)>>,
      <<I(10), I(10)>> }

DistortionParams ==
    { NoParams, [grid_size |-> I(1)], [grid_size |-> R(1, 2)], [grid_size |-> I(2)] }

DistortionCalls ==
    { Call("Distortion Patterns", f, p, o, wh) :
          f \in Formats, p \in DistortionParams, o \in Origins, wh \in SmallRects }
    \cup
    { Call("Distortion Patterns", f, p, <<I(0), I(0)>>, wh) :
          f \in Formats, p \in {NoParams, [grid_size |-> I(1)]}, wh \in DistortionRects }

SingleParams ==
    { [pattern_type |-> "single"],
      [pattern_type |-> "single", line_spacing |-> I(5), line_width |-> I(1),
       orientation |-> "horizontal"],
      [pattern_type |-> "single", line_spacing |-> I(250), line_width |-> I(100),
       orientation |-> "vertical"],
      [pattern_type |-> "single", line_spacing |-> I(250), line_width |-> I(250),
       orientation |-> "horizontal"] }

\* 24000 requested line positions on a span of 6 mm.
DenseSingleParams ==
    { [pattern_type |-> "single", line_spacing |-> R(1, 4), line_width |-> I(1),
       orientation |-> o] : o \in {"vertical", "horizontal"} }

MultiParams ==
    { NoParams,
      [pattern_type |-> "multi", line_spacing |-> I(5), line_width |-> I(1),
       orientation |-> "vertical"],
      [line_spacing |-> I(1), line_width |-> R(3, 10), orientation |-> "vertical"],
      [pattern_type |-> "multi", line_spacing |-> I(1), line_width |-> R(3, 10),
       orientation |-> "vertical"] }

MultiRects ==
    { <<I(1), I(1)>>, <<I(2), I(1)>>, <<I(1), I(3)>>, <<R(1, 2), I(2)>>, <<I(3), R(1, 2)>>,
      <<I(20), I(20)>>, <<R(204, 5), R(204, 5)>> }

LinePairCalls ==
    { Call("Line Pair Patterns", f, p, o, wh) :
          f \in Formats, p \in SingleParams, o \in Origins, wh \in SmallRects }
    \cup
    { Call("Line Pair Patterns", f, p, <<I(0), I(0)>>, <<I(6), I(6)>>) :
          f \in Formats, p \in DenseSingleParams }
    \cup
    { Call("Line Pair Patterns", f, p, o, wh) :
          f \in Formats, p \in MultiParams, o \in Origins, wh \in MultiRects }

AlignmentParams ==
    { NoParams }
    \cup
    { [marker_type |-> t, marker_size |-> z] :
          t \in {"crosshair", "fiducial", "scale_bar"}, z \in {I(2), R(1, 2), I(3), I(10)} }

AlignmentCalls ==
    { Call("Alignment Markers", f, p, o, wh) :
          f \in Formats, p \in AlignmentParams, o \in Origins, wh \in SmallRects }

Calls == ResolutionCalls \cup DistortionCalls \cup LinePairCalls \cup AlignmentCalls

InitGen ==
    /\ plate_width = R(508, 5) /\ plate_height = R(508, 5) /\ margin = I(10)
    /\ SVG_AVAILABLE = TRUE /\ DXF_AVAILABLE = TRUE
    /\ Constructed
    /\ generators = <<>> /\ history = <<>>
    /\ layout = NoLayout
    /\ call \in Calls
    /\ ret = NoRet

\* generator = ResolutionPatternGenerator(pattern_type, params), then
\* generator.generate_svg_elements(...) or generator.generate_dxf_elements(...).
GenResolution ==
    /\ call.cls = "Resolution Patterns"
    /\ ~ret.done
    /\ ret' = [done |-> TRUE] @@
                 (IF call.fmt = "svg"
                  THEN Resolution_generate_svg_elements(call.params, call.x, call.y, call.w, call.h)
                  ELSE Resolution_generate_dxf_elements(call.params, call.x, call.y, call.w, call.h))
    /\ UNCHANGED <<objVars, plateVars, guiVars, layout, call>>

GenDistortion ==
    /\ call.cls = "Distortion Patterns"
    /\ ~ret.done
    /\ ret' = [done |-> TRUE] @@
                 (IF call.fmt = "svg"
                  THEN Distortion_generate_svg_elements(call.params, call.x, call.y, call.w, call.h)
                  ELSE Distortion_generate_dxf_elements(call.params, call.x, call.y, call.w, call.h))
    /\ UNCHANGED <<objVars, plateVars, guiVars, layout, call>>

GenLinePair ==
    /\ call.cls = "Line Pair Patterns"
    /\ ~ret.done
    /\ ret' = [done |-> TRUE] @@
                 (IF call.fmt = "svg"
                  THEN LinePair_generate_svg_elements(call.params, call.x, call.y, call.w, call.h)
                  ELSE LinePair_generate_dxf_elements(call.params, call.x, call.y, call.w, call.h))
    /\ UNCHANGED <<objVars, plateVars, guiVars, layout, call>>

GenAlignment ==
    /\ call.cls = "Alignment Markers"
    /\ ~ret.done
    /\ ret' = [done |-> TRUE] @@
                 (IF call.fmt = "svg"
                  THEN Alignment_generate_svg_elements(call.params, call.x, call.y, call.w, call.h)
                  ELSE Alignment_generate_dxf_elements(call.params, call.x, call.y, call.w, call.h))
    /\ UNCHANGED <<objVars, plateVars, guiVars, layout, call>>

NextGen == GenResolution \/ GenDistortion \/ GenLinePair \/ GenAlignment

SpecGen == InitGen /\ [][NextGen]_vars

---------------------------------------------------------------------------
(* Specification SpecLayout: calculate_section_dimensions applied to every *)
(* plate of a bounded set (the method reads the three DoubleVars and does   *)
(* not validate them, so invalid plates are inputs too).                   *)

MaxPlateHalves == 6
MaxMarginQuarters == 6

PlateDims == { R(k, 2) : k \in 0..MaxPlateHalves }
Margins == { R(k, 4) : k \in 0..MaxMarginQuarters }

InitLayout ==
    /\ plate_width \in PlateDims
    /\ plate_height \in PlateDims
    /\ margin \in Margins
    /\ SVG_AVAILABLE = TRUE /\ DXF_AVAILABLE = TRUE
    /\ Constructed
    /\ generators = <<>> /\ history = <<>>
    /\ layout = NoLayout
    /\ call = NoCall
    /\ ret = NoRet

CalcLayout ==
    /\ ~layout.done
    /\ layout' = [done |-> TRUE] @@ calculate_section_dimensions(plate_width, plate_height, margin)
    /\ UNCHANGED <<objVars, plateVars, guiVars, genVars>>

NextLayout == CalcLayout

SpecLayout == InitLayout /\ [][NextLayout]_vars

---------------------------------------------------------------------------
(* Specification SpecRegen: PatternGenerator objects are constructed and   *)
(* their generate_svg_elements / generate_dxf_elements methods are called  *)
(* repeatedly, in any order.  A generator object has the fields name and   *)
(* parameters (lines 26-28); the generate methods read self.parameters     *)
(* and the module constant MAX_ELEMENTS_PER_PATTERN and assign neither     *)
(* (no statement of the module assigns MAX_ELEMENTS_PER_PATTERN after line *)
(* 21, and self.parameters is assigned at line 28 only).                   *)

MaxGenerators == 2
MaxInvocations == 3

RegenGenerators ==
    { <<"Resolution Patterns", [dot_spacing |-> R(1, 2), dot_diameter |-> R(1, 4)]>>,
      <<"Distortion Patterns", [grid_size |-> R(1, 2)]>>,
      <<"Line Pair Patterns", [pattern_type |-> "single", line_spacing |-> I(250),
                               line_width |-> I(100), orientation |-> "horizontal"]>>,
      <<"Alignment Markers", [marker_type |-> "fiducial", marker_size |-> R(1, 2)]>> }

\* One section rectangle <<x, y, w, h>>: repeated requests are compared on
\* the same section.
RegenRects == { <<R(1, 2), I(1), I(2), I(1)>> }

InitRegen ==
    /\ plate_width = R(508, 5) /\ plate_height = R(508, 5) /\ margin = I(10)
    /\ SVG_AVAILABLE = TRUE /\ DXF_AVAILABLE = TRUE
    /\ Constructed
    /\ generators = <<>> /\ history = <<>>
    /\ layout = NoLayout
    /\ call = NoCall
    /\ ret = NoRet

\* Faulty variant: the parameters are kept in one place shared by all
\* generator objects, so a call sees those of the call before it.
self_parameters_stale(g) ==
    IF history = <<>> THEN g.parameters ELSE history[Len(history)].parameters

\* self.parameters, as read by the generate methods.
self_parameters(g) == g.parameters

\* PatternGenerator.__init__(name, parameters)
NewGenerator ==
    /\ Len(generators) < MaxGenerators
    /\ \E gp \in RegenGenerators :
           generators' = Append(generators, [name |-> gp[1], parameters |-> gp[2]])
    /\ UNCHANGED <<plateVars, guiVars, layout, genVars, history>>

\* The record of one call on generator object obj.
Invocation(obj, fmt, rect, result) ==
    [obj |-> obj, name |-> generators[obj].name, fmt |-> fmt,
     parameters |-> generators[obj].parameters,
     x |-> rect[1], y |-> rect[2], w |-> rect[3], h |-> rect[4],
     result |-> result,
     parameters_after |-> generators'[obj].parameters]

\* generator.generate_svg_elements(dwg, x_offset, y_offset, section_w, section_h)
RegenerateSvg ==
    /\ Len(history) < MaxInvocations
    /\ generators' = generators
    /\ \E obj \in 1..Len(generators), rect \in RegenRects :
       \E r \in { generate_svg_elements(generators[obj].name, self_parameters(generators[obj]),
                                        rect[1], rect[2], rect[3], rect[4]) } :
           history' = Append(history, Invocation(obj, "svg", rect, r))
    /\ UNCHANGED <<plateVars, guiVars, layout, genVars>>

\* generator.generate_dxf_elements(msp, x_offset, y_offset, section_w, section_h)
RegenerateDxf ==
    /\ Len(history) < MaxInvocations
    /\ generators' = generators
    /\ \E obj \in 1..Len(generators), rect \in RegenRects :
       \E r \in { generate_dxf_elements(generators[obj].name, self_parameters(generators[obj]),
                                        rect[1], rect[2], rect[3], rect[4]) } :
           history' = Append(history, Invocation(obj, "dxf", rect, r))
    /\ UNCHANGED <<plateVars, guiVars, layout, genVars>>

NextRegen == NewGenerator \/ RegenerateSvg \/ RegenerateDxf

SpecRegen == InitRegen /\ [][NextRegen]_vars

---------------------------------------------------------------------------
(* PlateConfig validity of the data model: all dimensions positive and     *)
(* 2*margin < min(width, height).                                          *)

ValidPlate(w, h, m) ==
    /\ w.n > 0 /\ h.n > 0 /\ m.n > 0
    /\ RLt(RAdd(m, m), w)
    /\ RLt(RAdd(m, m), h)

\* Section i of a layout as a rectangle [x, y, w, h].
SectionRect(l, i) ==
    [x |-> l.sections[i][1], y |-> l.sections[i][2], w |-> l.section_w, h |-> l.section_h]

\* Two rectangles share no interior point.
InteriorDisjoint(a, b) ==
    \/ RLe(RAdd(a.x, a.w), b.x)
    \/ RLe(RAdd(b.x, b.w), a.x)
    \/ RLe(RAdd(a.y, a.h), b.y)
    \/ RLe(RAdd(b.y, b.h), a.y)

---------------------------------------------------------------------------
(* C1: calculate_section_dimensions returns exactly four origins in the    *)
(* order top-left, top-right, bottom-left, bottom-right, equal to (m, m),  *)
(* (m+sw, m), (m, m+sh), (m+sw, m+sh), with the common section size        *)
(* sw = (width - 2*margin)/2 and sh = (height - 2*margin)/2.               *)
C1_SectionOrigins ==
    layout.done =>
        LET sw == layout.section_w
            sh == layout.section_h
            s  == layout.sections
        IN  /\ Len(s) = 4
            /\ RAdd(RAdd(sw, sw), RAdd(margin, margin)) = plate_width
            /\ RAdd(RAdd(sh, sh), RAdd(margin, margin)) = plate_height
            /\ s[1] = <<margin, margin>>
            /\ s[2][2] = margin /\ RSub(s[2][1], margin) = sw
            /\ s[3][1] = margin /\ RSub(s[3][2], margin) = sh
            /\ RSub(s[4][1], margin) = sw /\ RSub(s[4][2], margin) = sh

C1_Witness ==
    /\ layout.done
    /\ plate_width = I(3) /\ plate_height = I(2) /\ margin = R(1, 2)
    /\ layout.sections[4] = <<R(3, 2), I(1)>>

(* C2: for a valid plate (2*margin < min(width, height)) the four section  *)
(* rectangles are pairwise interior-disjoint, form a 2x2 arrangement that  *)
(* exactly covers [margin, width-margin] x [margin, height-margin], and    *)
(* their areas sum to (width-2*margin)*(height-2*margin).                  *)
C2_SectionsPartitionInterior ==
    (layout.done /\ ValidPlate(plate_width, plate_height, margin)) =>
        LET r(i) == SectionRect(layout, i)
            right  == RSub(plate_width, margin)
            bottom == RSub(plate_height, margin)
            availW == RSub(right, margin)
            availH == RSub(bottom, margin)
        IN  /\ \A i, j \in 1..4 : i # j => InteriorDisjoint(r(i), r(j))
            \* columns: sections 1,3 on the left, 2,4 on the right, no gap
            /\ r(1).x = margin /\ r(3).x = margin
            /\ RAdd(r(1).x, r(1).w) = r(2).x /\ RAdd(r(3).x, r(3).w) = r(4).x
            /\ RAdd(r(2).x, r(2).w) = right /\ RAdd(r(4).x, r(4).w) = right
            \* rows: sections 1,2 on top, 3,4 below, no gap
            /\ r(1).y = margin /\ r(2).y = margin
            /\ RAdd(r(1).y, r(1).h) = r(3).y /\ RAdd(r(2).y, r(2).h) = r(4).y
            /\ RAdd(r(3).y, r(3).h) = bottom /\ RAdd(r(4).y, r(4).h) = bottom
            /\ \A i \in 1..4 : r(i).w.n > 0 /\ r(i).h.n > 0
            /\ RMul(I(4), RMul(layout.section_w, layout.section_h)) = RMul(availW, availH)

C2_Witness ==
    /\ layout.done
    /\ ValidPlate(plate_width, plate_height, margin)
    /\ plate_width = I(3) /\ plate_height = R(5, 2) /\ margin = R(3, 4)
    /\ layout.section_w = R(3, 4)

---------------------------------------------------------------------------
(* Properties of an export (specification Spec).                           *)

\* width <= 0, height <= 0 or 2*margin >= min(width, height).
InvalidDimension(w, h, m) ==
    \/ RLe(w, I(0))
    \/ RLe(h, I(0))
    \/ RLe(RMin(w, h), RMul(I(2), m))

(* C3: an export started with width <= 0, height <= 0 or                   *)
(* 2*margin >= min(width, height) invokes no pattern generator and writes  *)
(* no file: it ends with an invalid-dimension error before.                *)
C3_InvalidDimensionsRejected ==
    /\ (pc # "idle" /\ InvalidDimension(plate_width, plate_height, margin)) => invoked = <<>>
    /\ \A k \in 1..Len(files) :
           ~InvalidDimension(files[k].plate_w, files[k].plate_h, files[k].margin)

\* An export of a plate whose margins leave nothing has run all four
\* generators and written its file.
C3_FileWrittenForInvalidPlate ==
    /\ pc = "idle"
    /\ RLe(RMin(plate_width, plate_height), RMul(I(2), margin))
    /\ invoked = <<1, 2, 3, 4>>
    /\ Len(files) = 1
    /\ status_label.text \in {"SVG saved", "DXF saved"}

---------------------------------------------------------------------------
(* Properties of one generator call (specification SpecGen).               *)

\* The section of the call has positive width and height.
PositiveSection == call.w.n > 0 /\ call.h.n > 0

\* The generator was constructed without parameters or with the values the
\* parameter widgets start with: the documented defaults.
DefaultParameters == call.params = NoParams \/ call.params = update_parameters(call.cls)

IsCircle(e) == e.kind \in {"circle", "CIRCLE"}

IsFilledRect(e) == e.kind \in {"rect", "LWPOLYLINE"}

Count(elements, Test(_)) == Len(SelectSeq(elements, Test))

SingleMode == call.cls = "Line Pair Patterns" /\ Get(call.params, "pattern_type", "multi") = "single"

\* a <= c <= b for a coordinate c, rational or of the form of a 45-degree
\* line's end point.
Between(a, c, b) ==
    IF "q" \in DOMAIN c THEN SdGeQ(c, a) /\ SdLeQ(c, b)
    ELSE RLe(a, c) /\ RLe(c, b)

InSection(px, py) ==
    /\ Between(call.x, px, RAdd(call.x, call.w))
    /\ Between(call.y, py, RAdd(call.y, call.h))

\* All coordinates of a shape lie in the section of the call (labels have
\* no extent and are not shapes).
ShapeInSection(e) ==
    CASE e.kind \in {"circle", "CIRCLE", "HATCH"} -> InSection(e.cx, e.cy)
      [] e.kind = "rect" -> InSection(e.x, e.y) /\ InSection(RAdd(e.x, e.w), RAdd(e.y, e.h))
      [] e.kind = "LWPOLYLINE" -> \A k \in 1..Len(e.points) : InSection(e.points[k][1], e.points[k][2])
      [] e.kind \in {"line", "LINE"} -> InSection(e.x1, e.y1) /\ InSection(e.x2, e.y2)
      [] OTHER -> TRUE

\* floor(a) for a rational a >= 0.
Floor(a) == a.n \div a.d

(* C4: for every section of positive width and height, extreme aspect      *)
(* ratios included, and the default parameters, the generator completes    *)
(* and returns its primitives without raising an error.                    *)
C4_GeneratorsTotal ==
    (ret.done /\ PositiveSection /\ DefaultParameters) => ~ret.raised

(* C5: the dot array emits at most 10000 circles; when the requested grid  *)
(* cols x rows exceeds 10000 the clamped cols*rows is at most 10000.       *)
C5_DotArrayWithinLimit ==
    (ret.done /\ call.cls = "Resolution Patterns") =>
        /\ Count(ret.elements, IsCircle) <= MAX_ELEMENTS_PER_PATTERN
        /\ ~ret.raised =>
              /\ Count(ret.elements, IsCircle) = ret.used[1] * ret.used[2]
              /\ ret.used[1] * ret.used[2] <= MAX_ELEMENTS_PER_PATTERN

C5_Witness ==
    /\ ret.done /\ ~ret.raised
    /\ call.cls = "Resolution Patterns" /\ call.fmt = "svg"
    /\ call.w = I(40) /\ call.h = I(30)
    /\ ret.requested = <<160, 120>>
    /\ ret.used = <<115, 86>>
    /\ Len(ret.elements) = 115 * 86

(* C6: the checkerboard emits at most 10000 filled rectangles, for every   *)
(* section size and grid size, grids with an odd number of cells just      *)
(* above 20000 included.                                                   *)
C6_CheckerboardWithinLimit ==
    (ret.done /\ call.cls = "Distortion Patterns") =>
        Count(ret.elements, IsFilledRect) <= MAX_ELEMENTS_PER_PATTERN

(* C7: single-frequency line pairs emit at most 10000 line rectangles: the *)
(* guard tests the drawn-line count (every second line position), and     *)
(* after clamping the loop range(0, num_lines, 2) runs at most 10000       *)
(* times.                                                                  *)
C7_SingleLinesWithinLimit ==
    (ret.done /\ SingleMode /\ ~ret.raised) =>
        /\ ret.warnings = Warnings((ret.requested[1] + 1) \div 2)
        /\ Len(ret.elements) = (ret.used[1] + 1) \div 2
        /\ Len(ret.elements) <= MAX_ELEMENTS_PER_PATTERN

C7_Witness ==
    /\ ret.done /\ SingleMode /\ ~ret.raised
    /\ call.w = I(6)
    /\ ret.requested = <<24000>>
    /\ ret.warnings = <<12000>>
    /\ Len(ret.elements) = MAX_ELEMENTS_PER_PATTERN

\* The number of elements the requested (unclamped) density amounts to.
RequestedElements ==
    CASE call.cls = "Resolution Patterns" -> ret.requested[1] * ret.requested[2]
      [] call.cls = "Distortion Patterns" -> (ret.requested[1] * ret.requested[2] + 1) \div 2
      [] OTHER -> (ret.requested[1] + 1) \div 2

DensityGuarded == call.cls \in {"Resolution Patterns", "Distortion Patterns"} \/ SingleMode

(* C8: in the dot array, the checkerboard and single-frequency lines a     *)
(* warning is emitted exactly when the requested element count exceeds     *)
(* 10000; with a warning the generation is not aborted and returns the     *)
(* primitives of the reduced counts; without one the requested counts are  *)
(* used unchanged.                                                         *)
C8_WarningIffClamped ==
    (ret.done /\ DensityGuarded /\ PositiveSection) =>
        /\ (ret.warnings # <<>>) <=> (RequestedElements > MAX_ELEMENTS_PER_PATTERN)
        /\ ret.warnings # <<>> =>
              /\ ~ret.raised
              /\ \A k \in 1..Len(ret.used) : ret.used[k] <= ret.requested[k]
        /\ ret.warnings = <<>> => ret.used = ret.requested

(* C9: every shape emitted for a section of positive size has all its      *)
(* coordinates (rectangle origin and origin + size, line end points,       *)
(* circle centre) inside the section rectangle [x, x+w] x [y, y+h].        *)
C9_ShapesInsideSection ==
    (ret.done /\ PositiveSection) =>
        \A k \in 1..Len(ret.elements) : ShapeInSection(ret.elements[k])

(* C10: the dot array uses the dot_spacing s and dot_diameter d of its     *)
(* params: the unclamped grid is floor(width/s) x floor(height/s) and      *)
(* every circle has radius d/2.                                            *)
C10_DotArrayUsesParams ==
    (/\ ret.done /\ ~ret.raised
     /\ call.cls = "Resolution Patterns"
     /\ "dot_spacing" \in DOMAIN call.params
     /\ "dot_diameter" \in DOMAIN call.params) =>
        /\ ret.requested = << Max(1, Floor(RDiv(call.w, call.params.dot_spacing))),
                              Max(1, Floor(RDiv(call.h, call.params.dot_spacing))) >>
        /\ \A k \in 1..Len(ret.elements) :
              IsCircle(ret.elements[k]) =>
                  ret.elements[k].r = RDiv(call.params.dot_diameter, I(2))

---------------------------------------------------------------------------
(* Geometry of the patterns (specification SpecGen).                       *)

\* Point i of count points spread over [origin, origin + span]: the two
\* edges included for count >= 2, the midpoint for a single point.
AxisPoint(origin, span, count, i) ==
    IF count >= 2 THEN RAdd(origin, RDiv(RMul(I(i), span), I(count - 1)))
    ELSE RAdd(origin, RDiv(span, I(2)))

(* C11: the dot array emits exactly cols*rows circles in row-major order;  *)
(* in an axis with at least 2 dots the first centre is on the near edge of *)
(* the section, the last on the far edge and the step is span/(count-1);   *)
(* in an axis with one dot the centre is the section's midpoint.           *)
C11_DotArraySpansSection ==
    (ret.done /\ ~ret.raised /\ call.cls = "Resolution Patterns" /\ PositiveSection) =>
        LET cols == ret.used[1]
            rows == ret.used[2]
            circ == SelectSeq(ret.elements, IsCircle)
        IN  /\ Len(circ) = cols * rows
            /\ \A k \in 1..Len(circ) :
                   /\ circ[k].cx = AxisPoint(call.x, call.w, cols, (k - 1) % cols)
                   /\ circ[k].cy = AxisPoint(call.y, call.h, rows, (k - 1) \div cols)

C11_Witness ==
    /\ ret.done /\ ~ret.raised
    /\ call.cls = "Resolution Patterns" /\ call.fmt = "svg"
    /\ call.x = I(0) /\ call.y = I(0) /\ call.w = I(20) /\ call.h = I(20)
    /\ ret.used = <<80, 80>>
    /\ Len(ret.elements) = 6400
    /\ ret.elements[1].cx = I(0) /\ ret.elements[1].cy = I(0)
    /\ ret.elements[80].cx = I(20) /\ ret.elements[81].cx = I(0)
    /\ ret.elements[6400].cx = I(20) /\ ret.elements[6400].cy = I(20)
    /\ \A k \in 1..6400 : ret.elements[k].r = R(1, 16)

\* The rectangle <<x, y, width, height>> of an SVG rect or of the closed
\* DXF polyline through its four corners.
BoxOf(e) ==
    IF e.kind = "rect" THEN <<e.x, e.y, e.w, e.h>>
    ELSE <<e.points[1][1], e.points[1][2],
           RSub(e.points[3][1], e.points[1][1]), RSub(e.points[3][2], e.points[1][2])>>

\* The intervals [a0, a1] and [b0, b1] have a common stretch of positive length.
Overlap(a0, a1, b0, b1) == RLt(a0, b1) /\ RLt(b0, a1)

\* The intervals [a0, a1] and [b0, b1] have a common point.
Meet(a0, a1, b0, b1) == RLe(a0, b1) /\ RLe(b0, a1)

\* Two boxes overlap in area or share a stretch of an edge.
ShareAreaOrEdge(a, b) ==
    \/ /\ Overlap(a[1], RAdd(a[1], a[3]), b[1], RAdd(b[1], b[3]))
       /\ Meet(a[2], RAdd(a[2], a[4]), b[2], RAdd(b[2], b[4]))
    \/ /\ Overlap(a[2], RAdd(a[2], a[4]), b[2], RAdd(b[2], b[4]))
       /\ Meet(a[1], RAdd(a[1], a[3]), b[1], RAdd(b[1], b[3]))

\* The cells (as row*cols + col) with row + col even, in row-major order.
EvenCells(cols, rows) ==
    SelectSeq([k \in 1..(cols * rows) |-> k - 1],
              LAMBDA c : ((c \div cols) + (c % cols)) % 2 = 0)

\* The largest number of rectangles compared pairwise.
MaxPairwiseRects == 50

(* C12: the checkerboard emits one filled rectangle for exactly the cells  *)
(* (row, col) with row + col even, in row-major order, each of size        *)
(* (width/cols, height/rows) at the section origin plus                    *)
(* (col*width/cols, row*height/rows); no two filled rectangles overlap in  *)
(* area or share an edge.                                                  *)
C12_CheckerboardTilesSection ==
    (ret.done /\ ~ret.raised /\ call.cls = "Distortion Patterns" /\ PositiveSection) =>
        LET cols == ret.used[1]
            rows == ret.used[2]
            cells == EvenCells(cols, rows)
            box == [j \in 1..Len(ret.elements) |-> BoxOf(ret.elements[j])]
        IN  /\ \A j \in 1..Len(ret.elements) : IsFilledRect(ret.elements[j])
            /\ Len(ret.elements) = Len(cells)
            /\ \A j \in 1..Len(cells) :
                   box[j] = << RAdd(call.x, RDiv(RMul(I(cells[j] % cols), call.w), I(cols))),
                               RAdd(call.y, RDiv(RMul(I(cells[j] \div cols), call.h), I(rows))),
                               RDiv(call.w, I(cols)), RDiv(call.h, I(rows)) >>
            /\ Len(box) <= MaxPairwiseRects =>
                   \A i, j \in 1..Len(box) : i < j => ~ShareAreaOrEdge(box[i], box[j])

C12_Witness ==
    /\ ret.done /\ ~ret.raised
    /\ call.cls = "Distortion Patterns"
    /\ call.params = [grid_size |-> I(1)]
    /\ call.w = I(10) /\ call.h = I(10)
    /\ ret.used = <<10, 10>>
    /\ Len(ret.elements) = 50
    /\ BoxOf(ret.elements[50]) = <<I(9), I(9), I(1), I(1)>>

\* Single-frequency mode: the scan axis is x for 'vertical' lines, else y.
SingleVertical == Get(call.params, "orientation", "vertical") = "vertical"

SingleOffset == IF SingleVertical THEN call.x ELSE call.y

SingleSpan == IF SingleVertical THEN call.w ELSE call.h

SingleSpacingMm == RDiv(Get(call.params, "line_spacing", I(5)), I(1000))

SingleWidthMm == RDiv(Get(call.params, "line_width", I(1)), I(1000))

\* The extent [lo, hi] of a drawn line along the scan axis, and its centre.
ScanLo(e) == IF SingleVertical THEN BoxOf(e)[1] ELSE BoxOf(e)[2]

ScanHi(e) == IF SingleVertical THEN RAdd(BoxOf(e)[1], BoxOf(e)[3]) ELSE RAdd(BoxOf(e)[2], BoxOf(e)[4])

ScanCentre(e) == RDiv(RAdd(ScanLo(e), ScanHi(e)), I(2))

(* C13: in single-frequency mode with n line positions every second       *)
(* position is drawn; the drawn lines are evenly spaced and centred: the   *)
(* distance from the near edge of the section to the first drawn line      *)
(* equals the distance from the last drawn line to the far edge, for even  *)
(* n as well as for odd n.                                                 *)
C13_SingleLinesCentred ==
    (ret.done /\ ~ret.raised /\ SingleMode /\ PositiveSection) =>
        LET n == Len(ret.elements)
            c == [j \in 1..n |-> ScanCentre(ret.elements[j])]
        IN  /\ n = (ret.used[1] + 1) \div 2
            /\ \A j \in 2..(n - 1) : RSub(c[j + 1], c[j]) = RSub(c[j], c[j - 1])
            /\ RSub(c[1], SingleOffset) = RSub(RAdd(SingleOffset, SingleSpan), c[n])

\* The 2 mm / 5 um example: 400 positions, 200 drawn lines, the first on
\* the near edge and the last one step short of the far edge.
C13_EvenCountOffCentre ==
    /\ ret.done /\ ~ret.raised /\ SingleMode /\ SingleVertical
    /\ call.x = I(0) /\ call.w = I(2)
    /\ SingleSpacingMm = R(5, 1000)
    /\ ret.used = <<400>>
    /\ Len(ret.elements) = 200
    /\ ScanCentre(ret.elements[1]) = I(0)
    /\ ScanCentre(ret.elements[200]) = RSub(I(2), R(2, 399))

(* C14: in single-frequency mode with line width <= spacing no two drawn   *)
(* line rectangles overlap: consecutive drawn lines are 2*actual_spacing   *)
(* apart centre to centre, with actual_spacing = span/(n-1), and           *)
(* 2*actual_spacing exceeds the line width.                                *)
C14_SingleLinesDisjoint ==
    (/\ ret.done /\ ~ret.raised /\ SingleMode /\ PositiveSection
     /\ RLe(SingleWidthMm, SingleSpacingMm)) =>
        LET n == Len(ret.elements)
            pitch == RDiv(RMul(I(2), SingleSpan), I(Max(1, ret.used[1] - 1)))
        IN  \A j \in 1..(n - 1) :
                /\ RSub(ScanCentre(ret.elements[j + 1]), ScanCentre(ret.elements[j])) = pitch
                /\ RLt(SingleWidthMm, pitch)
                /\ RLt(ScanHi(ret.elements[j]), ScanLo(ret.elements[j + 1]))

C14_Witness ==
    /\ ret.done /\ ~ret.raised /\ SingleMode /\ ~SingleVertical
    /\ call.h = I(2)
    /\ SingleSpacingMm = R(1, 4) /\ SingleWidthMm = R(1, 4)
    /\ ret.used = <<8>>
    /\ Len(ret.elements) = 4
    /\ ScanHi(ret.elements[1]) = RAdd(call.y, R(1, 8))
    /\ ScanLo(ret.elements[2]) = RAdd(call.y, RSub(R(4, 7), R(1, 8)))

---------------------------------------------------------------------------
(* Multi-frequency mode: the elements of a call sorted by sub-cell.  Each  *)
(* sub-cell contributes its bars or lines, three labels and one border     *)
(* (SVG: labels then border; DXF: border then labels).                     *)

MultiMode == call.cls = "Line Pair Patterns" /\ Get(call.params, "pattern_type", "multi") # "single"

IsLabel(e) == e.kind \in {"text", "TEXT"}

LabelsBefore(k) == Cardinality({ i \in 1..(k - 1) : IsLabel(ret.elements[i]) })

IsSubCellBorder(k) ==
    LET e == ret.elements[k]
    IN  IF call.fmt = "svg" THEN e.kind = "rect" /\ e.fill = "none"
        ELSE /\ e.kind = "LWPOLYLINE"
             /\ k < Len(ret.elements)
             /\ IsLabel(ret.elements[k + 1])

IsBar(k) == ~IsLabel(ret.elements[k]) /\ ~IsSubCellBorder(k)

\* The indices of the bars and lines of sub-cell c (1..9, row-major).
BarsOfCell(c) == { k \in 1..Len(ret.elements) : IsBar(k) /\ LabelsBefore(k) = 3 * (c - 1) }

BordersOfCell(c) ==
    { k \in 1..Len(ret.elements) :
          /\ IsSubCellBorder(k)
          /\ LabelsBefore(k) = IF call.fmt = "svg" THEN 3 * c ELSE 3 * (c - 1) }

\* Sub-cell c of the 3 x 3 partition of the section, as <<x, y, w, h>>.
SubCell(c) ==
    << RAdd(call.x, RDiv(RMul(I((c - 1) % 3), call.w), I(3))),
       RAdd(call.y, RDiv(RMul(I((c - 1) \div 3), call.h), I(3))),
       RDiv(call.w, I(3)), RDiv(call.h, I(3)) >>

CellSpacingMm(c) == RDiv(pattern_configs[c].spacing_um, I(1000))

\* The sub-cell's extent along the scan axis: its height for horizontal
\* bars (0 degrees), its width for vertical bars (90 degrees).
CellScanSpan(c) == IF pattern_configs[c].orientation = 0 THEN SubCell(c)[4] ELSE SubCell(c)[3]

n_pairs(c) == Max(5, Floor(RDiv(RMul(R(9, 10), CellScanSpan(c)), RMul(I(2), CellSpacingMm(c)))))

(* C15: in multi-frequency mode each sub-cell renders 2*n_pairs bars with  *)
(* n_pairs = max(5, floor(0.9 * sub-cell dimension / (2*spacing_mm))), so  *)
(* no sub-cell has fewer than 5 line pairs (10 bars).                      *)
C15_MultiBarCount ==
    (ret.done /\ ~ret.raised /\ MultiMode /\ PositiveSection) =>
        \A c \in 1..Len(pattern_configs) :
            /\ Cardinality(BarsOfCell(c)) >= 10
            /\ pattern_configs[c].orientation \in {0, 90} =>
                   Cardinality(BarsOfCell(c)) = 2 * n_pairs(c)

\* The thickness of a bar: the short side of a horizontal or vertical bar,
\* the stroke width of an SVG line.
BarThickness(c, e) ==
    IF e.kind = "line" THEN e.stroke_width
    ELSE IF pattern_configs[c].orientation = 0 THEN BoxOf(e)[4] ELSE BoxOf(e)[3]

(* C16: in multi-frequency mode every bar's thickness is 0.5 times the     *)
(* spacing of its sub-cell (50% duty cycle), in both export paths.         *)
C16_MultiBarThickness ==
    (ret.done /\ ~ret.raised /\ MultiMode /\ PositiveSection) =>
        \A c \in 1..Len(pattern_configs) : \A k \in BarsOfCell(c) :
            ret.elements[k].kind # "LINE" =>
                BarThickness(c, ret.elements[k]) = RDiv(CellSpacingMm(c), I(2))

\* The point (px, py) lies in sub-cell c inset by 5% of the sub-cell's width
\* on the left and right and 5% of its height at the top and bottom.
InInset(c, px, py) ==
    LET s == SubCell(c)
        mx == RMul(R(5, 100), s[3])
        my == RMul(R(5, 100), s[4])
    IN  /\ Between(RAdd(s[1], mx), px, RSub(RAdd(s[1], s[3]), mx))
        /\ Between(RAdd(s[2], my), py, RSub(RAdd(s[2], s[4]), my))

BarInInset(c, e) ==
    IF e.kind \in {"line", "LINE"} THEN InInset(c, e.x1, e.y1) /\ InInset(c, e.x2, e.y2)
    ELSE LET b == BoxOf(e)
         IN  InInset(c, b[1], b[2]) /\ InInset(c, RAdd(b[1], b[3]), RAdd(b[2], b[4]))

(* C17: in multi-frequency mode, for every section size, every bar or line *)
(* of a sub-cell lies within the sub-cell inset by 5% of its width on the  *)
(* left and right and 5% of its height at the top and bottom, and each     *)
(* sub-cell gets exactly one border rectangle, equal to the sub-cell.      *)
C17_MultiBarsInsideInset ==
    (ret.done /\ ~ret.raised /\ MultiMode /\ PositiveSection) =>
        \A c \in 1..Len(pattern_configs) :
            /\ Cardinality(BordersOfCell(c)) = 1
            /\ \A k \in BordersOfCell(c) : BoxOf(ret.elements[k]) = SubCell(c)
            /\ \A k \in BarsOfCell(c) : BarInInset(c, ret.elements[k])

\* A multi-frequency call on a section that is not square has returned.
C17_NonSquareSection ==
    /\ ret.done /\ ~ret.raised /\ MultiMode
    /\ call.w = I(2) /\ call.h = I(1)
    /\ \A c \in 1..Len(pattern_configs) :
           /\ Cardinality(BordersOfCell(c)) = 1
           /\ \A k \in BordersOfCell(c) : BoxOf(ret.elements[k]) = SubCell(c)
    /\ BoxOf(ret.elements[1])[1] = RAdd(call.x, R(1, 60))

---------------------------------------------------------------------------
(* Alignment markers.                                                      *)

MarkerType == Get(call.params, "marker_type", "crosshair")

MarkerSize == Get(call.params, "marker_size", I(2))

CentreX == RAdd(call.x, RDiv(call.w, I(2)))

CentreY == RAdd(call.y, RDiv(call.h, I(2)))

IsLine(e) == e.kind \in {"line", "LINE"}

\* A horizontal line of the given length whose midpoint is (mx, my).
HorizontalAbout(e, mx, my, length) ==
    /\ IsLine(e)
    /\ e.y1 = my /\ e.y2 = my
    /\ e.x1 = RSub(mx, RDiv(length, I(2)))
    /\ e.x2 = RAdd(mx, RDiv(length, I(2)))

\* A vertical line of the given length whose midpoint is (mx, my).
VerticalAbout(e, mx, my, length) ==
    /\ IsLine(e)
    /\ e.x1 = mx /\ e.x2 = mx
    /\ e.y1 = RSub(my, RDiv(length, I(2)))
    /\ e.y2 = RAdd(my, RDiv(length, I(2)))

(* C18: alignment markers are centred in the section.  A crosshair is      *)
(* exactly two lines, a horizontal and a vertical one, each of length      *)
(* marker_size with its midpoint at the section centre; a fiducial is      *)
(* exactly two circles at the section centre, an unfilled one of radius    *)
(* marker_size/2 followed by a filled one of radius marker_size/8.         *)
C18_MarkersCentred ==
    (ret.done /\ call.cls = "Alignment Markers") =>
        LET e == ret.elements
        IN  /\ ~ret.raised
            /\ MarkerType = "crosshair" =>
                   /\ Len(e) = 2
                   /\ HorizontalAbout(e[1], CentreX, CentreY, MarkerSize)
                   /\ VerticalAbout(e[2], CentreX, CentreY, MarkerSize)
            /\ MarkerType = "fiducial" =>
                   /\ Len(e) = 2
                   /\ \A k \in 1..2 : IsCircle(e[k]) /\ e[k].cx = CentreX /\ e[k].cy = CentreY
                   /\ e[1].r = RDiv(MarkerSize, I(2))
                   /\ e[2].r = RDiv(MarkerSize, I(8))
                   /\ call.fmt = "svg" =>
                          /\ e[1].fill = "none" /\ e[1].stroke = "black"
                          /\ e[2].fill = "black"

C18_Witness ==
    /\ ret.done /\ ~ret.raised
    /\ call.cls = "Alignment Markers" /\ call.fmt = "svg"
    /\ call.params = [marker_type |-> "fiducial", marker_size |-> I(2)]
    /\ call.x = R(1, 2) /\ call.y = I(1) /\ call.w = I(2) /\ call.h = I(1)
    /\ ret.elements =
           << Circle(R(3, 2), R(3, 2), I(1), "none", "black"),
              Circle(R(3, 2), R(3, 2), R(1, 4), "black", "none") >>

(* C19: a scale_bar of size s is one horizontal line of length s centred   *)
(* in the section followed by exactly 11 vertical tick lines at            *)
(* x = left end + i*s/10, i = 0..10; the ticks 0, 5 and 10 are twice as    *)
(* tall as the other eight.                                                *)
C19_ScaleBarTicks ==
    (ret.done /\ call.cls = "Alignment Markers" /\ MarkerType = "scale_bar") =>
        LET e == ret.elements
            left == RSub(CentreX, RDiv(MarkerSize, I(2)))
            tall(i) == RSub(e[i + 2].y2, e[i + 2].y1)
        IN  /\ ~ret.raised
            /\ Len(e) = 12
            /\ HorizontalAbout(e[1], CentreX, CentreY, MarkerSize)
            /\ \A i \in 0..10 :
                   /\ VerticalAbout(e[i + 2], RAdd(left, RDiv(RMul(I(i), MarkerSize), I(10))),
                                    CentreY, tall(i))
                   /\ tall(i).n > 0
                   /\ tall(i) = IF i \in {0, 5, 10} THEN RMul(I(2), tall(1)) ELSE tall(1)

C19_Witness ==
    /\ ret.done /\ ~ret.raised
    /\ call.cls = "Alignment Markers" /\ call.fmt = "dxf"
    /\ call.params = [marker_type |-> "scale_bar", marker_size |-> I(10)]
    /\ call.x = I(0) /\ call.y = I(0) /\ call.w = I(2) /\ call.h = I(2)
    /\ Len(ret.elements) = 12
    /\ ret.elements[2] = DxfLine(I(-4), R(9, 10), I(-4), R(11, 10))
    /\ ret.elements[3] = DxfLine(I(-3), R(19, 20), I(-3), R(21, 20))
    /\ ret.elements[12] = DxfLine(I(6), R(9, 10), I(6), R(11, 10))

---------------------------------------------------------------------------
(* Repeated generation (specification SpecRegen).                          *)

\* Two calls with the same generator class, parameters, export path and
\* section rectangle.
SameRequest(a, b) ==
    /\ a.name = b.name /\ a.fmt = b.fmt /\ a.parameters = b.parameters
    /\ a.x = b.x /\ a.y = b.y /\ a.w = b.w /\ a.h = b.h

---------------------------------------------------------------------------
(* The drawing order of the vector export.                                 *)

IsPatternBatch(k) == dwg[k].role = "pattern" /\ dwg[k].count > 0

OutlineBefore(s, k) ==
    \E j \in 1..(k - 1) : dwg[j].role = "section_outline" /\ dwg[j].section = s

\* C21: in the vector export the plate border is the first addition to the
\* drawing, and no pattern primitive is added before the dashed outlines of
\* all four sections have been added.
C21_OutlinesBeforePatterns ==
    (run.fmt = "svg" /\ dwg # <<>>) =>
        /\ dwg[1].role = "plate_outline"
        /\ \A k \in 1..Len(dwg) :
               IsPatternBatch(k) => \A s \in 1..4 : OutlineBefore(s, k)

\* The export of the plate the application starts with: the dots of section
\* 1 are in the drawing before any section outline.
C21_PatternBeforeAnyOutline ==
    /\ run.fmt = "svg" /\ Len(dwg) >= 5
    /\ dwg[1].role = "plate_outline"
    /\ IsPatternBatch(2) /\ dwg[2].section = 1
    /\ dwg[5].role = "section_outline" /\ dwg[5].section = 1
    /\ ~ \E s \in 1..4 : OutlineBefore(s, 2)

---------------------------------------------------------------------------
(* The vector path and the CAD path of one generator call.                 *)

\* What the generator of the call returns on the other export path.
OtherPath ==
    IF call.fmt = "svg"
    THEN generate_dxf_elements(call.cls, call.params, call.x, call.y, call.w, call.h)
    ELSE generate_svg_elements(call.cls, call.params, call.x, call.y, call.w, call.h)

ElementSet(elements) == { elements[k] : k \in 1..Len(elements) }

IsFilled(e) == e.kind \in {"circle", "rect"} /\ e.fill = "black"

\* The CAD entities that stand for the vector primitive e are among cad.
HasCadEquivalent(e, cad) ==
    /\ (e.kind = "circle" /\ IsFilled(e)) =>
           /\ [kind |-> "CIRCLE", cx |-> e.cx, cy |-> e.cy, r |-> e.r] \in cad
           /\ [kind |-> "HATCH", pattern |-> "SOLID", cx |-> e.cx, cy |-> e.cy, r |-> e.r,
               num_points |-> 20] \in cad
    /\ (e.kind = "rect" /\ IsFilled(e)) =>
           [kind |-> "LWPOLYLINE", close |-> TRUE,
            points |-> << <<e.x, e.y>>, <<RAdd(e.x, e.w), e.y>>,
                          <<RAdd(e.x, e.w), RAdd(e.y, e.h)>>, <<e.x, RAdd(e.y, e.h)>>,
                          <<e.x, e.y>> >>] \in cad
    /\ e.kind = "line" =>
           [kind |-> "LINE", x1 |-> e.x1, y1 |-> e.y1, x2 |-> e.x2, y2 |-> e.y2] \in cad

\* C22: every filled circle of the vector path is on the CAD path a circle
\* plus a solid hatch at the same centre and radius, every filled rectangle a
\* closed 4-corner polyline, every line a native line entity.
C22_CadEntitiesEquivalent ==
    (ret.done /\ ~ret.raised) =>
        \E o \in { OtherPath } :
            \E svg \in { IF call.fmt = "svg" THEN ret.elements ELSE o.elements },
               cad \in { ElementSet(IF call.fmt = "dxf" THEN ret.elements ELSE o.elements) } :
                /\ Cardinality(cad) <= Len(IF call.fmt = "dxf" THEN ret.elements ELSE o.elements)
                /\ \A k \in 1..Len(svg) : HasCadEquivalent(svg[k], cad)

\* The fiducial on the CAD path: two circles and no hatch.
C22_FiducialDotNotHatched ==
    /\ ret.done /\ ~ret.raised
    /\ call.cls = "Alignment Markers" /\ call.fmt = "dxf"
    /\ Get(call.params, "marker_type", "crosshair") = "fiducial"
    /\ Len(ret.elements) = 2
    /\ \A k \in 1..2 : ret.elements[k].kind = "CIRCLE"
    /\ ret.elements[2].r = RDiv(Get(call.params, "marker_size", I(2)), I(8))
    /\ \E o \in { OtherPath } : IsFilled(o.elements[2]) /\ o.elements[2].r = ret.elements[2].r

\* A geometric shape is a circle, a rectangle or a line: not a text label,
\* and not the hatch that fills a CAD circle.
IsShape(e) == e.kind \notin {"text", "TEXT", "HATCH"}

\* The geometry of a shape, the same for a vector primitive and the CAD
\* entity that draws it: centre and radius, the corners, the end points.
Geometry(e) ==
    CASE e.kind \in {"circle", "CIRCLE"} -> << "circle", e.cx, e.cy, e.r >>
      [] e.kind = "rect" ->
             << "rect", <<e.x, e.y>>, <<RAdd(e.x, e.w), e.y>>,
                <<RAdd(e.x, e.w), RAdd(e.y, e.h)>>, <<e.x, RAdd(e.y, e.h)>> >>
      [] e.kind = "LWPOLYLINE" ->
             << "rect", e.points[1], e.points[2], e.points[3], e.points[4] >>
      [] e.kind \in {"line", "LINE"} -> << "line", e.x1, e.y1, e.x2, e.y2 >>

Shapes(elements) ==
    LET s == SelectSeq(elements, IsShape)
    IN  [k \in 1..Len(s) |-> Geometry(s[k])]

\* C23: for one generator call the vector path and the CAD path raise alike,
\* compute the same requested and clamped counts, and emit their geometric
\* shapes (text labels aside) at the same coordinates in the same order.
C23_PathsAgree ==
    ret.done =>
        \E o \in { OtherPath } :
            /\ o.raised = ret.raised
            /\ o.requested = ret.requested
            /\ o.used = ret.used
            /\ Shapes(o.elements) = Shapes(ret.elements)

\* A clamped dot array on the CAD path: 160 x 120 dots requested, 115 x 86
\* circles (each followed by its hatch), the circles of the vector path.
C23_Witness ==
    /\ ret.done /\ ~ret.raised /\ call.fmt = "dxf"
    /\ call.cls = "Resolution Patterns"
    /\ ret.requested = <<160, 120>> /\ ret.used = <<115, 86>>
    /\ Len(ret.elements) = 2 * 115 * 86
    /\ Len(Shapes(ret.elements)) = 115 * 86
    /\ \E o \in { OtherPath } :
          /\ Shapes(o.elements) = Shapes(ret.elements)
          /\ \A k \in 1..Len(o.elements) : o.elements[k].kind \in {"circle", "rect", "line", "text"}

---------------------------------------------------------------------------
(* The export handlers (specification Spec).                               *)

\* The library of the export format is missing.
BackendMissing(fmt) == IF fmt = "svg" THEN ~SVG_AVAILABLE ELSE ~DXF_AVAILABLE

\* A step that is a call of generate_svg (fmt = "svg") or generate_dxf up
\* to its first return or its first self.root.update().
ExportCalled(fmt) == ExportUnavailable(fmt) \/ ExportCancelled(fmt) \/ ExportBegin(fmt)

\* C24: an export whose backend is missing shows an error and returns: no
\* file dialog, no generator call, no file, and the status text as it was.
C24_MissingBackendReported ==
    [][ \A fmt \in Formats :
            (BackendMissing(fmt) /\ ExportCalled(fmt)) =>
                /\ Len(dialogs') = 1 /\ dialogs'[1].call = "showerror"
                /\ \A k \in 1..Len(dialogs') : dialogs'[k].call # "asksaveasfilename"
                /\ invoked' = <<>>
                /\ files' = files
                /\ dwg' = dwg
                /\ status_label' = status_label
                /\ pc' = "idle" ]_vars

\* A DXF export without ezdxf after an SVG export that saved its file: the
\* error dialog, no second file, and the status of the SVG export.
C24_Witness ==
    /\ ~DXF_AVAILABLE /\ exports = 2 /\ pc = "idle"
    /\ dialogs = << Dialog("showerror", "ezdxf library not available") >>
    /\ invoked = <<>>
    /\ Len(files) = 1 /\ files[1].fmt = "svg"
    /\ status_label.text = "SVG saved"

\* C25: a step writes a file only from the save step of an export run,
\* after the generators of sections 1, 2, 3, 4 have been invoked in this
\* order and have returned; it writes one file, and there are never more
\* files than export runs.  The generators of a run are invoked in the
\* order of the sections.
C25_SaveOnceAfterAllSections ==
    [][ /\ files' # files =>
               /\ pc = "save" /\ pc' = "idle"
               /\ invoked = <<1, 2, 3, 4>> /\ invoked' = invoked
               /\ Len(files') = Len(files) + 1
               /\ SubSeq(files', 1, Len(files)) = files
               /\ Len(files') <= exports'
        /\ invoked' = SubSeq(<<1, 2, 3, 4>>, 1, Len(invoked'))
        /\ pc' = "section" => files' = files ]_vars

\* Two export runs, each with its four generators invoked and its one file.
C25_Witness ==
    /\ pc = "idle" /\ exports = 2
    /\ invoked = <<1, 2, 3, 4>>
    /\ Len(files) = 2
    /\ Len(dwg) = 17
    /\ status_label.text \in {"SVG saved", "DXF saved"}

\* What the generator of section i returns in the current export run.
GeneratorOfSection(i) ==
    IF run.fmt = "svg"
    THEN generate_svg_elements(section_configs[i].pattern_type, section_configs[i].params,
                               run.sections[i][1], run.sections[i][2], run.section_w, run.section_h)
    ELSE generate_dxf_elements(section_configs[i].pattern_type, section_configs[i].params,
                               run.sections[i][1], run.sections[i][2], run.section_w, run.section_h)

\* C30: when the generator of the section an export run has come to raises,
\* the run ends there: the save step is not reached, no file is written, an
\* error dialog is shown and the status is 'Error generating SVG' or 'Error
\* generating DXF'.
C30_GeneratorErrorAbortsExport ==
    [][ (pc = "section" /\ GeneratorOfSection(run.i).raised) =>
            /\ pc' = "idle"
            /\ files' = files
            /\ Len(dialogs') = Len(dialogs) + 1
            /\ dialogs'[Len(dialogs')].call = "showerror"
            /\ status_label'.text =
                   (IF run.fmt = "svg" THEN "Error generating SVG" ELSE "Error generating DXF")
            /\ invoked' = Append(invoked, run.i) ]_vars

\* A second export, after the grid size of section 2 was set to 0: the
\* generator of section 2 raises, the file of the first export stays the
\* only one and the status is the error.
C30_Witness ==
    /\ pc = "idle" /\ exports = 2
    /\ section_configs[2].pattern_type = "Distortion Patterns"
    /\ section_configs[2].params.grid_size = I(0)
    /\ invoked = <<1, 2>>
    /\ Len(files) = 1
    /\ dialogs[Len(dialogs)] = Dialog("showerror", "Failed to generate")
    /\ status_label.text \in {"Error generating SVG", "Error generating DXF"}

---------------------------------------------------------------------------
(* The shapes a generator returns.                                         *)

CanonicalShapes == {"circle", "rect", "line", "polyline"}

\* C26: every element of the list a finished generate_svg_elements call
\* returns is a circle, a rectangle, a line or a polyline.
C26_OnlyCanonicalShapes ==
    (ret.done /\ ~ret.raised /\ call.fmt = "svg") =>
        \A k \in 1..Len(ret.elements) : ret.elements[k].kind \in CanonicalShapes

\* A multi-frequency line-pair call that returned: three text labels for
\* each of the nine sub-cells stand in the list among the shapes.
C26_TextLabelsReturned ==
    /\ ret.done /\ ~ret.raised /\ call.fmt = "svg"
    /\ call.cls = "Line Pair Patterns"
    /\ Get(call.params, "pattern_type", "multi") = "multi"
    /\ Len(SelectSeq(ret.elements, LAMBDA e : e.kind = "text")) = 3 * 9
    /\ Len(SelectSeq(ret.elements, LAMBDA e : e.kind \in CanonicalShapes)) = Len(ret.elements) - 27
    /\ \E k \in 1..Len(ret.elements) : ret.elements[k].kind = "rect"

---------------------------------------------------------------------------
(* The clamp of the dot array.                                             *)

\* m = floor(sqrt(x)) for a rational x >= 0.
IsFloorSqrt(m, x) == RLe(I(m * m), x) /\ RLt(x, I((m + 1) * (m + 1)))

\* m = floor(a / b) for integers a >= 0 and b > 0.
IsFloorQuotient(m, a, b) == m * b <= a /\ a < (m + 1) * b

\* C27: when the requested dot grid cols x rows exceeds 10000 and the clamp
\* completes, the grid used is min(cols, max_cols) x min(rows, max_rows)
\* with max_cols = floor(sqrt(10000 * width / height)) and max_rows =
\* floor(10000 / max_cols); a dimension at or below its maximum keeps its
\* value and no dimension grows.
C27_ClampIsMinimum ==
    (/\ ret.done /\ ~ret.raised /\ call.cls = "Resolution Patterns"
     /\ ret.requested[1] * ret.requested[2] > MAX_ELEMENTS_PER_PATTERN) =>
        \E max_cols \in { IntSqrt(RDiv(RMul(I(10000), call.w), call.h)) } :
            \E max_rows \in { IF max_cols = 0 THEN 0 ELSE 10000 \div max_cols } :
                /\ max_cols > 0
                /\ IsFloorSqrt(max_cols, RDiv(RMul(I(10000), call.w), call.h))
                /\ IsFloorQuotient(max_rows, 10000, max_cols)
                /\ ret.used[1] = Min(ret.requested[1], max_cols)
                /\ ret.used[2] = Min(ret.requested[2], max_rows)
                /\ ret.requested[1] <= max_cols => ret.used[1] = ret.requested[1]
                /\ ret.requested[2] <= max_rows => ret.used[2] = ret.requested[2]
                /\ ret.used[1] <= ret.requested[1]
                /\ ret.used[2] <= ret.requested[2]

\* A 2501 mm x 0.125 mm section: 10004 x 1 dots are requested, max_cols is
\* 14144 and max_rows is 0; the columns keep their value, the rows go to 0.
C27_Witness ==
    /\ ret.done /\ ~ret.raised /\ call.cls = "Resolution Patterns"
    /\ call.w = I(2501) /\ call.h = R(1, 8)
    /\ ret.requested = <<10004, 1>>
    /\ IsFloorSqrt(14144, RDiv(RMul(I(10000), call.w), call.h))
    /\ ret.used = <<10004, 0>>

---------------------------------------------------------------------------
(* Multi-frequency mode: the number of lines drawn in a sub-cell.          *)

\* C28: in multi-frequency mode the nine entries of the table fill the
\* sub-cells of the 3 x 3 partition in row-major order, and the number of
\* bars or lines drawn in a sub-cell is the target line count of its
\* entry, for the orientations 0, 45 and 90 degrees.
C28_DrawnCountIsTarget ==
    (ret.done /\ ~ret.raised /\ MultiMode /\ PositiveSection) =>
        /\ Len(pattern_configs) = 9
        /\ \A c \in 1..9 :
               /\ \E k \in BordersOfCell(c) : BoxOf(ret.elements[k]) = SubCell(c)
               /\ pattern_configs[c].orientation \in {0, 45, 90}
               /\ Cardinality(BarsOfCell(c)) = pattern_configs[c].target_lines

\* The 20 mm square section: the sub-cells of 0 and 90 degrees hold their
\* target counts, the three sub-cells of 45 degrees hold 2, 8 and 5 lines
\* for the targets 5, 15 and 8.
C28_DiagonalCellsDrawFewer ==
    /\ ret.done /\ ~ret.raised /\ MultiMode
    /\ call.w = I(20) /\ call.h = I(20)
    /\ << pattern_configs[2].target_lines, pattern_configs[5].target_lines,
          pattern_configs[8].target_lines >> = <<5, 15, 8>>
    /\ [c \in 1..9 |-> Cardinality(BarsOfCell(c))] = <<3, 2, 7, 10, 8, 20, 12, 5, 6>>
    /\ \A c \in {1, 3, 4, 6, 7, 9} :
           Cardinality(BarsOfCell(c)) = pattern_configs[c].target_lines

---------------------------------------------------------------------------
(* The line parameters of a line-pair section in the default mode.         *)

\* The parameters set line_spacing, line_width and orientation = 'vertical'
\* and leave the mode at its default.
SuppliesLineParams(params) ==
    /\ {"line_spacing", "line_width", "orientation"} \subseteq DOMAIN params
    /\ params.orientation = "vertical"
    /\ Get(params, "pattern_type", "multi") = "multi"

\* What single-frequency mode draws for the call.
SingleModeOutput ==
    IF call.fmt = "svg"
    THEN generate_single_pattern_svg(call.params, call.x, call.y, call.w, call.h)
    ELSE generate_single_pattern_dxf(call.params, call.x, call.y, call.w, call.h)

\* What the line-pair generator draws for the call when no parameter is set.
NoParamsOutput ==
    IF call.fmt = "svg"
    THEN LinePair_generate_svg_elements(NoParams, call.x, call.y, call.w, call.h)
    ELSE LinePair_generate_dxf_elements(NoParams, call.x, call.y, call.w, call.h)

\* A section of at most 3 mm x 3 mm.
SmallSection == RLe(call.w, I(3)) /\ RLe(call.h, I(3))

\* C29: a line-pair call whose parameters set line_spacing, line_width and
\* orientation = 'vertical', the mode left at its default, returns the
\* single-frequency vertical line pairs of that spacing and width (stated
\* for the sections of at most 3 mm x 3 mm).
C29_LineParamsHonoured ==
    (/\ ret.done /\ call.cls = "Line Pair Patterns"
     /\ SuppliesLineParams(call.params) /\ SmallSection) =>
        \E s \in { SingleModeOutput } :
            /\ ret.raised = s.raised
            /\ ~s.raised => ret.elements = s.elements

\* The parameters of the demo (1 um spacing, 0.3 um width, vertical, mode
\* 'multi' from update_parameters): the nine sub-cells are drawn, the same
\* elements as without any parameter, and not the single-frequency lines.
C29_LineParamsIgnored ==
    /\ ret.done /\ ~ret.raised /\ call.cls = "Line Pair Patterns"
    /\ call.params = [pattern_type |-> "multi", line_spacing |-> I(1), line_width |-> R(3, 10),
                      orientation |-> "vertical"]
    /\ call.w = I(1) /\ call.h = I(1)
    /\ Len(SelectSeq(ret.elements, IsLabel)) = 3 * 9
    /\ ret.elements = NoParamsOutput.elements
    /\ ~SingleModeOutput.raised /\ ret.elements # SingleModeOutput.elements
    /\ \A k \in 1..Len(SingleModeOutput.elements) : ~IsLabel(SingleModeOutput.elements[k])

============================================================================
